---- MODULE Spec2Model ----
(***************************************************************************)
(* legionbatctl daemon: the state manager (in-memory State and its state   *)
(* file), the battery monitoring loop, the connection server with its      *)
(* request handlers, and the sysfs hardware files they read and write.     *)
(* Every lock acquisition of the state manager and every hardware access   *)
(* is one step; monitoring loop and connection handlers interleave freely. *)
(***************************************************************************)
EXTENDS Integers, Sequences, FiniteSets, TLC

(* ------------------------------ bounds -------------------------------- *)
\* ticks, client actions and external hardware changes explored per run
MaxEvents == 2
\* injected failures (file system, sysfs, socket write) explored per run
MaxFaults == 1
\* messages read on one connection before the client closes it
MaxPerConn == 2
\* calls of Daemon.Stop in one run
MaxStops == 2
\* calls of Daemon.Start on a daemon that runs, and on one that was stopped
MaxStarts == 1
MaxCalls == 3

(* ----------------------------- domains -------------------------------- *)
Conns == {1, 2}
\* battery capacity values the sysfs file may hold (101: out of range)
Levels == {70, 85, 101}
\* daemon process id written by SetDaemonInfo(os.Getpid())
Pid == 1

CmdEnable == "enable"
CmdDisable == "disable"
CmdStatus == "status"
CmdSetThreshold == "set_threshold"
CmdDaemonStatus == "daemon_status"

IsValidCommand(cmd) ==
    cmd \in {CmdEnable, CmdDisable, CmdStatus, CmdSetThreshold, CmdDaemonStatus}

ValidateThresholdLoose(threshold) == threshold >= 60 /\ threshold <= 101

\* ValidateThreshold: TRUE iff no error is returned
ValidateThreshold(threshold) == ~(threshold < 60 \/ threshold > 100)

(* The "threshold" parameter of a request: absent, a JSON value that is not *)
(* a number, or a JSON number (float64) given here in tenths.               *)
NoParam == [kind |-> "missing", tenths |-> 0]
BadParam == [kind |-> "string", tenths |-> 0]
Num(t) == [kind |-> "number", tenths |-> t]
ParamTenths == {590, 600, 1000, 1009, 1010}
Params == {NoParam, BadParam} \cup {Num(t) : t \in ParamTenths}

\* int(threshold): Go's float64 -> int conversion truncates toward zero
FloatToInt(tenths) == IF tenths >= 0 THEN tenths \div 10 ELSE -((-tenths) \div 10)
IsInteger(p) == p.kind = "number" /\ p.tenths % 10 = 0

(* ------------------------- persistent state --------------------------- *)
\* defaults built like NewManager's State literal, without the threshold
createDefaultStateNoThreshold ==
    [enabled |-> FALSE, threshold |-> 0, mode |-> "unknown", lastAction |-> "init",
     level |-> 0, cons |-> FALSE, charging |-> FALSE, pid |-> 0]

createDefaultState ==
    [enabled |-> FALSE, threshold |-> 80, mode |-> "unknown", lastAction |-> "init",
     level |-> 0, cons |-> FALSE, charging |-> FALSE, pid |-> 0]

validateStateFields(s) ==
    IF s.threshold < 60 \/ s.threshold > 100 THEN "ErrInvalidThreshold"
    ELSE IF s.level < 0 \/ s.level > 100 THEN "ErrInvalidBatteryLevel"
    ELSE IF s.mode \notin {"enabled", "disabled", "unknown"} THEN "ErrInvalidMode"
    ELSE "nil"

\* Manager.Validate with the battery level checked after the mode
ValidateModeFirst(s) ==
    IF s.threshold < 60 \/ s.threshold > 100 THEN "ErrInvalidThreshold"
    ELSE IF s.mode \notin {"enabled", "disabled", "unknown"} THEN "ErrInvalidMode"
    ELSE IF s.level < 0 \/ s.level > 100 THEN "ErrInvalidBatteryLevel"
    ELSE IF s.pid <= 0 THEN "ErrInvalidPID"
    ELSE "nil"

\* Manager.Validate: the common fields, then the PID
Validate(s) ==
    IF validateStateFields(s) # "nil" THEN validateStateFields(s)
    ELSE IF s.pid <= 0 THEN "ErrInvalidPID"
    ELSE "nil"

(* saveStateAtomic: validation first; then temp file, write, sync, close,  *)
(* rename, chmod.  o is what the file system does: "ok", "fail" (an error   *)
(* before or at the rename: the state file keeps its content) or "chmod"    *)
(* (the rename succeeded and the chmod after it failed).                    *)
SaveOutcomes == {"ok", "fail", "chmod"}
saveStateAtomic(s, d, o) ==
    IF validateStateFields(s) # "nil" THEN [err |-> TRUE, disk |-> d]
    ELSE IF o = "ok" THEN [err |-> FALSE, disk |-> s]
    ELSE IF o = "chmod" THEN [err |-> TRUE, disk |-> s]
    ELSE [err |-> TRUE, disk |-> d]

\* the mutators handed to UpdateState
EnableConservationNoMode(s) ==
    [s EXCEPT !.enabled = TRUE, !.lastAction = "enable"]

EnableConservation(s) ==
    [s EXCEPT !.enabled = TRUE, !.mode = "enabled", !.lastAction = "enable"]

DisableConservation(s) ==
    [s EXCEPT !.enabled = FALSE, !.mode = "disabled", !.lastAction = "disable"]

SetChargeThresholdOff(s, threshold) ==
    [s EXCEPT !.threshold = threshold - 1, !.lastAction = "set_threshold"]

SetChargeThreshold(s, threshold) ==
    [s EXCEPT !.threshold = threshold, !.lastAction = "set_threshold"]

UpdateBatteryInfo(s, level, conservationMode, charging) ==
    [s EXCEPT !.level = level, !.cons = conservationMode, !.charging = charging,
              !.lastAction = "auto"]

SetDaemonInfo(s, pid) == [s EXCEPT !.pid = pid]

ShouldEnableConservationAbove(s) == s.enabled /\ s.charging /\ s.level > s.threshold

ShouldEnableConservation(s) == s.enabled /\ s.charging /\ s.level >= s.threshold

ShouldDisableConservation(s) == s.enabled /\ s.charging /\ s.level < s.threshold


(* ------------------------------ messages ------------------------------ *)
Message(type, id, hasRequest, command, param) ==
    [type |-> type, id |-> id, hasRequest |-> hasRequest, command |-> command,
     param |-> param]

\* what a client built on NewRequest sends
NewRequest(command, param) == Message("request", "req-1", TRUE, command, param)

WellFormed ==
    {NewRequest(c, NoParam) : c \in {CmdEnable, CmdDisable, CmdStatus, CmdDaemonStatus}}
    \cup {NewRequest(CmdSetThreshold, p) : p \in Params}

(* Messages that are not a request of the closed command set with a         *)
(* correlation id: a response, an unknown type, a request without body, an  *)
(* unknown command, an empty id.                                            *)
Malformed ==
    { Message("response", "req-1", FALSE, "", NoParam),
      Message("event", "req-1", TRUE, CmdEnable, NoParam),
      Message("request", "req-1", FALSE, "", NoParam),
      Message("request", "req-1", TRUE, "reboot", NoParam),
      Message("request", "", TRUE, CmdEnable, NoParam) }

Messages == WellFormed \cup Malformed

IsRequest(m) == m.type = "request"
IsResponse(m) == m.type = "response"

NoData ==
    [enabled |-> FALSE, threshold |-> 0, mode |-> "", level |-> 0, cons |-> FALSE,
     charging |-> FALSE, lastAction |-> ""]

NewResponseOwnId(requestID, success, data) ==
    [type |-> "response", id |-> "resp-1", success |-> success, data |-> data]

NewResponse(requestID, success, data) ==
    [type |-> "response", id |-> requestID, success |-> success, data |-> data]

NewErrorResponse(requestID) == NewResponse(requestID, FALSE, NoData)
NewSuccessResponse(requestID, data) == NewResponse(requestID, TRUE, data)
NoResponse == [type |-> "none", id |-> "", success |-> FALSE, data |-> NoData]

(* Message.Validate, on a request or on a response built by NewResponse,    *)
(* whose body is never nil.                                                 *)
MessageValidate(m) ==
    IF m.type # "request" /\ m.type # "response" THEN "invalid message type"
    ELSE IF m.id = "" THEN "message ID cannot be empty"
    ELSE IF m.type = "response" THEN "nil"
    ELSE IF ~m.hasRequest THEN "request message missing request data"
    ELSE IF ~IsValidCommand(m.command) THEN "ErrInvalidCommand"
    ELSE "nil"

(* processRequest: the handler a decoded message is routed to, or the      *)
(* error it is answered with before any handler runs.                      *)
Route(m) ==
    IF ~IsRequest(m) THEN "invalid message type"
    ELSE IF ~m.hasRequest THEN "missing request data"
    ELSE IF IsValidCommand(m.command) THEN m.command
    ELSE "unknown command"

(* --------------------------- the state file --------------------------- *)
(* time.Time: the wall-clock instant and whether the value carries a        *)
(* monotonic reading (time.Now() does, a parsed time does not).             *)
Now(w) == [wall |-> w, mono |-> TRUE]
ZeroTime == [wall |-> 0, mono |-> FALSE]
\* Time.MarshalJSON writes the instant; UnmarshalJSON parses it back
MarshalTime(t) == t.wall
UnmarshalTime(w) == [wall |-> w, mono |-> FALSE]
\* Time.Equal compares instants
TimeEqual(a, b) == a.wall = b.wall

\* the State struct with its two time fields
Timed(s, t) == s @@ [lastActionTime |-> t, startTime |-> t]
\* State{}: the zero value json.Unmarshal starts from
ZeroState ==
    [enabled |-> FALSE, threshold |-> 0, mode |-> "", lastAction |-> "",
     lastActionTime |-> ZeroTime, level |-> 0, cons |-> FALSE, charging |-> FALSE,
     pid |-> 0, startTime |-> ZeroTime]

(* A file: absent, or a text that is a complete JSON object or not.         *)
Absent == [exists |-> FALSE, complete |-> FALSE, keys |-> {}, obj |-> ZeroState]
\* what a crash or a failed write leaves of a text being written
Truncated == [exists |-> TRUE, complete |-> FALSE, keys |-> {}, obj |-> ZeroState]
StateKeys ==
    {"conservation_enabled", "charge_threshold", "current_mode", "last_action",
     "last_action_time", "battery_level", "conservation_mode", "charging", "pid",
     "start_time"}

\* an encoder that leaves the battery snapshot out of the file
EncodeNoBattery(s) ==
    [exists |-> TRUE, complete |-> TRUE,
     keys |-> StateKeys \ {"battery_level", "conservation_mode", "charging"},
     obj |-> [ZeroState EXCEPT !.enabled = s.enabled, !.threshold = s.threshold,
                !.mode = s.mode, !.lastAction = s.lastAction, !.pid = s.pid,
                !.lastActionTime = UnmarshalTime(MarshalTime(s.lastActionTime)),
                !.startTime = UnmarshalTime(MarshalTime(s.startTime))]]

(* json.NewEncoder(file).Encode(m.state): every field under its json tag;   *)
(* obj holds the values as written (a time as its instant).                 *)
Encode(s) ==
    [exists |-> TRUE, complete |-> TRUE, keys |-> StateKeys,
     obj |-> [enabled |-> s.enabled, threshold |-> s.threshold, mode |-> s.mode,
              lastAction |-> s.lastAction,
              lastActionTime |-> UnmarshalTime(MarshalTime(s.lastActionTime)),
              level |-> s.level, cons |-> s.cons, charging |-> s.charging,
              pid |-> s.pid,
              startTime |-> UnmarshalTime(MarshalTime(s.startTime))]]

\* json.Unmarshal(data, &state): a key that is missing leaves the zero value
Field(f, key, name) == IF key \in f.keys THEN f.obj[name] ELSE ZeroState[name]

Unmarshal(f) ==
    IF ~f.complete THEN [err |-> TRUE, state |-> ZeroState]
    ELSE [err |-> FALSE,
          state |-> [enabled |-> Field(f, "conservation_enabled", "enabled"),
                     threshold |-> Field(f, "charge_threshold", "threshold"),
                     mode |-> Field(f, "current_mode", "mode"),
                     lastAction |-> Field(f, "last_action", "lastAction"),
                     lastActionTime |-> Field(f, "last_action_time", "lastActionTime"),
                     level |-> Field(f, "battery_level", "level"),
                     cons |-> Field(f, "conservation_mode", "cons"),
                     charging |-> Field(f, "charging", "charging"),
                     pid |-> Field(f, "pid", "pid"),
                     startTime |-> Field(f, "start_time", "startTime")]]

(* ------------------------------- state -------------------------------- *)
VARIABLES
    hw,             \* sysfs files: battery capacity, conservation_mode, status
    mem,            \* Manager.state
    disk,           \* content of the state file
    mon,            \* the monitorBattery goroutine and its current cycle
    conn,           \* one handleConnection goroutine per connection
    checkInterval,  \* Daemon.checkInterval, in seconds
    last,           \* the exchange completed by the latest step, if any
    cyc,            \* the monitoring cycle ended by the latest step, if any
    lastSet,        \* threshold of the most recent SetChargeThreshold call
    run,            \* the enable commands completed back to back
    events, faults, \* how much of MaxEvents / MaxFaults is used
    file,           \* the state file, as the steps of one save see it
    tmp,            \* the temp file beside it (statePath + ".tmp")
    mgr,            \* a state.Manager working on that file, step by step
    bak,            \* the backup file (statePath + ".backup")
    dmn,            \* the Daemon's start and shutdown: flags, files, goroutines
    lk,             \* the Manager's RWMutex and the goroutines inside its methods
    qry             \* the latest query of a Manager's state and what it returned

\* the running daemon, its life cycle, and the file store step by step
runVars ==
    <<hw, mem, disk, mon, conn, checkInterval, last, cyc, lastSet, run, events, faults>>
daemonVarsNoLock == <<runVars, dmn, qry>>
daemonVars == <<daemonVarsNoLock, lk>>
storeVars == <<file, tmp, mgr, bak>>
vars == <<runVars, dmn, storeVars, lk, qry>>

\* the fields of the state the two decision predicates read
View(s) ==
    [enabled |-> s.enabled, charging |-> s.charging, level |-> s.level,
     threshold |-> s.threshold]
NoView == [enabled |-> FALSE, charging |-> FALSE, level |-> 0, threshold |-> 0]

\* what the three sysfs files hold at one moment
Reading(h) == [level |-> h.level, cons |-> h.cons, charging |-> h.charging]
NoReading == [level |-> 0, cons |-> FALSE, charging |-> FALSE]

(* the goroutine between two cycles.  ticker is the period, in seconds, of   *)
(* the time.NewTicker(d.checkInterval) it made when it started, the 30 of   *)
(* NewDaemon: the loop never resets or replaces its ticker.                 *)
IdleMon ==
    [pc |-> "idle", fin |-> "none", level |-> 0, cons |-> FALSE, charging |-> FALSE,
     en |-> FALSE, view |-> NoView, view2 |-> NoView, she |-> FALSE, shd |-> FALSE,
     writes |-> 0, wval |-> FALSE, ticker |-> 30, werr |-> "none", rr |-> "none"]

NewConn ==
    [pc |-> "new", msg |-> NewRequest(CmdStatus, NoParam), nreq |-> 0, ndisp |-> 0,
     nresp |-> 0, disp |-> FALSE, should |-> FALSE, writes |-> 0, wval |-> FALSE,
     wok |-> FALSE, mut |-> FALSE, post |-> FALSE, level |-> 0, cons |-> FALSE,
     charging |-> FALSE, fresh |-> FALSE, seen |-> NoReading, serr |-> FALSE,
     werr |-> "none", rr |-> "none", en0 |-> FALSE, mode0 |-> ""]

NoExchange ==
    [conn |-> 0, msg |-> NewRequest(CmdStatus, NoParam), resp |-> NoResponse,
     dispatched |-> FALSE, should |-> FALSE, writes |-> 0, wok |-> FALSE,
     mut |-> FALSE, post |-> FALSE, set |-> 0, thr0 |-> 0, dthr0 |-> 0,
     fresh |-> FALSE, seen |-> NoReading, serr |-> FALSE,
     werr |-> "none", rr |-> "none", en0 |-> FALSE, mode0 |-> ""]

NoRun == [n |-> 0, writes |-> 0, first |-> createDefaultState]

\* a Save() that returned nil, if any, since the last save began
NoSaved == [some |-> FALSE, state |-> ZeroState]
\* the latest Backup() that returned nil with a file to copy, if any
NoBackup == [some |-> FALSE, state |-> ZeroState, file |-> Absent]
(* state.NewManager(statePath); orig, saved, was, fresh, and for Restore    *)
(* kind (the error returned), pre (the state it found), hadbak and bk are   *)
(* history                                                                  *)
NewManager ==
    [pc |-> "idle", state |-> [ZeroState EXCEPT !.mode = "unknown"], op |-> "none",
     err |-> FALSE, failed |-> FALSE, prev |-> Absent, orig |-> Absent,
     saved |-> NoSaved, was |-> Absent, fresh |-> TRUE,
     kind |-> "nil", pre |-> ZeroState, hadbak |-> FALSE, bk |-> NoBackup]

\* the save steps are not looked into: disk stands for the file
StoreIdle == file = Absent /\ tmp = Absent /\ bak = Absent /\ mgr = NewManager

\* the goroutines that call the Manager's methods
Procs == {1, 2, 3}
NoOp == [name |-> "none", arg |-> 0]
\* a goroutine outside every method of the Manager
IdleProc == [pc |-> "idle", op |-> NoOp, k |-> 0, pre |-> ZeroState, snap |-> ZeroState,
             t |-> 0, res |-> "none"]
(* sync.RWMutex: w is the goroutine holding the write lock (0: none), r the *)
(* goroutines holding read locks.  committed (the states the Manager held   *)
(* whenever no mutation was under way), clock and calls are history.        *)
NewLock ==
    [w |-> 0, r |-> {}, proc |-> [p \in Procs |-> IdleProc], committed |-> {},
     clock |-> 3, calls |-> 0]
\* the lock is not looked into: every mutation is one step; no query is made
NoQuery ==
    [fn |-> "none", bool |-> FALSE, err |-> "nil", on |-> ZeroState, arg |-> 0,
     prev |-> 0]
LockIdle == lk = NewLock /\ qry = NoQuery

(* daemon.NewDaemon: not running, done open, no listener; no goroutine yet. *)
(* viaRun: started by Run() from main (the process ends when Run returns)   *)
(* or by Start() from a program that goes on, as the tests do.  at, iofail, *)
(* accepted, stops, refused and starts are history.                         *)
NewDaemon(viaRun) ==
    [pc |-> "new", at |-> "none", iofail |-> FALSE, viaRun |-> viaRun,
     running |-> FALSE, done |-> FALSE, listener |-> "none",
     sock |-> FALSE, pidfile |-> FALSE,
     srv |-> "none", monl |-> "none", sig |-> "none", hc |-> "none",
     accepted |-> "none",
     alive |-> TRUE, stop |-> "none", stops |-> 0, stopErr |-> FALSE,
     refused |-> 0, starts |-> 0]

(* States a started daemon can be in: Start has run Manager.Load (defaults  *)
(* when there is no state file, otherwise the valid file of an earlier run) *)
(* and SetDaemonInfo, both persisted.                                        *)
LoadedStates ==
    { createDefaultState,
      [enabled |-> TRUE, threshold |-> 80, mode |-> "enabled", lastAction |-> "auto",
       level |-> 85, cons |-> FALSE, charging |-> TRUE, pid |-> Pid] }

Init ==
    /\ hw \in [level : Levels, cons : BOOLEAN, charging : BOOLEAN]
    /\ mem \in {SetDaemonInfo(s, Pid) : s \in LoadedStates}
    /\ disk = mem
    /\ mon = IdleMon
    /\ conn = [c \in Conns |-> NewConn]
    /\ checkInterval = 30
    /\ last = NoExchange
    /\ cyc = IdleMon
    /\ lastSet = 0
    /\ run = NoRun
    /\ events = 0
    /\ faults = 0
    /\ StoreIdle
    /\ dmn = NewDaemon(TRUE)
    /\ LockIdle

\* the step completes neither an exchange nor a monitoring cycle
NoReport == last' = NoExchange /\ cyc' = IdleMon /\ UNCHANGED <<storeVars, dmn, lk, qry>>

\* one more tick, message or hardware change within the explored run
Event == events < MaxEvents /\ events' = events + 1
\* outcome o of a system call: anything but "ok" is an injected failure
Bad(o) == IF o = "ok" THEN 0 ELSE 1
FaultN(n) == faults + n <= MaxFaults /\ faults' = faults + n
Fault(o) == FaultN(Bad(o))

\* a mutation that is left in memory and flushed at some later time
UpdateStateDeferred(s, o) ==
    /\ mem' = s
    /\ disk' = disk

(* Manager.UpdateState(updateFn): lock, mutate, saveStateAtomic, unlock.    *)
(* s is updateFn applied to the current state.                              *)
UpdateState(s, o) ==
    /\ mem' = s
    /\ disk' = saveStateAtomic(s, disk, o).disk

UpdateErr(s, o) == saveStateAtomic(s, disk, o).err

\* any state change ends a run of back-to-back enable commands
OtherMutation == run' = NoRun

(* ------------------------------ hardware ------------------------------ *)
\* battery level or charger state changes (the switch has no other writer)
HwChange ==
    /\ Event
    /\ \E l \in Levels, ch \in BOOLEAN :
          /\ <<l, ch>> # <<hw.level, hw.charging>>
          /\ hw' = [hw EXCEPT !.level = l, !.charging = ch]
    /\ NoReport
    /\ UNCHANGED <<mem, disk, mon, conn, checkInterval, lastSet, run, faults>>

\* os.WriteFile(conservationPath, value): applied, silently not applied, or error
WriteOutcomes == {"ok", "ignored", "err"}
HwWritten(enable, o) == IF o = "ok" THEN [hw EXCEPT !.cons = enable] ELSE hw

\* setConservationMode, lines 293-305: the re-read succeeded and shows the value written
VerifiedAnyValue(r, actualValue, expectedValue) == r = "ok"

Verified(r, actualValue, expectedValue) == r = "ok" /\ actualValue = expectedValue

\* setConservationMode that takes a re-read without error as the proof
setConservationModeNoCompare(r, actualValue, expectedValue) ==
    IF r # "ok" THEN "failed to verify" ELSE "nil"

(* setConservationMode after an os.WriteFile that returned nil: os.ReadFile *)
(* (r: its outcome), the comparison, and the error returned.  Nothing is    *)
(* written a second time.                                                   *)
setConservationMode(r, actualValue, expectedValue) ==
    IF r # "ok" THEN "failed to verify"
    ELSE IF ~Verified(r, actualValue, expectedValue) THEN "not updated"
    ELSE "nil"

\* what the re-read showed: nothing (not made, or failed), the value written, another
Reread(r, actualValue, expectedValue) ==
    IF r # "ok" THEN "none" ELSE IF actualValue = expectedValue THEN "same" ELSE "other"


(* readBatteryInfo: the three sysfs reads; r is their outcome, h the        *)
(* hardware, stored the battery fields of the state (which it never uses).  *)
readBatteryInfoStale(h, r, stored) ==
    IF r = "ok" THEN [err |-> FALSE, val |-> Reading(h)]
    ELSE [err |-> FALSE, val |-> Reading(stored)]

readBatteryInfo(h, r, stored) ==
    IF r = "ok" THEN [err |-> FALSE, val |-> Reading(h)]
    ELSE [err |-> TRUE, val |-> NoReading]

(* --------------------------- monitoring loop -------------------------- *)
\* checkBatteryAndAdjust, line 44: FALSE means "Skipping check"
GateAlways(charging, enabled) == TRUE

Gate(charging, enabled) == ~(~charging \/ ~enabled)

\* checkBatteryAndAdjust, lines 55-69: the write the cycle issues, if any
DecisionNoCheck(shouldEnable, shouldDisable, conservationMode) ==
    IF shouldEnable THEN "enable"
    ELSE IF shouldDisable THEN "disable"
    ELSE "none"

Decision(shouldEnable, shouldDisable, conservationMode) ==
    IF shouldEnable /\ ~conservationMode THEN "enable"
    ELSE IF shouldDisable /\ conservationMode THEN "disable"
    ELSE "none"

abs(x) == IF x < 0 THEN -x ELSE x

\* adjustCheckInterval: the new interval in seconds
adjustCheckInterval(batteryLevel, threshold) ==
    IF abs(batteryLevel - threshold) < 5 THEN 15
    ELSE IF abs(batteryLevel - threshold) < 15 THEN 30
    ELSE 120

\* SetCheckInterval without its lower limit
SetCheckIntervalNoMin(interval) == IF interval > 600 THEN 600 ELSE interval

\* SetCheckInterval: the value d.checkInterval gets, in seconds
SetCheckInterval(interval) ==
    LET atLeast == IF interval < 10 THEN 10 ELSE interval
    IN  IF atLeast > 600 THEN 600 ELSE atLeast

SetMonitoringInterval(interval) == SetCheckInterval(interval)

\* the cycle ends: the goroutine is back in its select
Running(m) == mon' = m /\ NoReport
EndCycle(m, fin) ==
    /\ mon' = IdleMon
    /\ cyc' = [m EXCEPT !.pc = "done", !.fin = fin]
    /\ last' = NoExchange
    /\ UNCHANGED <<storeVars, dmn, lk, qry>>

\* ticker fires; readBatteryInfo (o: outcome of reading the sysfs files)
MonTick ==
    /\ mon.pc = "idle"
    /\ Event
    /\ \E o \in {"ok", "err"} :
          LET rd == readBatteryInfo(hw, o, mem) IN
          /\ Fault(o)
          /\ IF ~rd.err
             THEN Running([IdleMon EXCEPT !.pc = "update", !.level = rd.val.level,
                                          !.cons = rd.val.cons,
                                          !.charging = rd.val.charging])
             ELSE EndCycle(IdleMon, "read error")
    /\ UNCHANGED <<hw, mem, disk, conn, checkInterval, lastSet, run>>

\* stateManager.UpdateBatteryInfo; an error ends the cycle
MonUpdate ==
    /\ mon.pc = "update"
    /\ \E o \in SaveOutcomes :
          LET s == UpdateBatteryInfo(mem, mon.level, mon.cons, mon.charging) IN
          /\ Fault(o)
          /\ UpdateState(s, o)
          /\ IF UpdateErr(s, o)
             THEN EndCycle(mon, "update error")
             ELSE Running([mon EXCEPT !.pc = "gate"])
    /\ OtherMutation
    /\ UNCHANGED <<hw, conn, checkInterval, lastSet, events>>

\* "if !charging || !d.stateManager.GetConservationEnabled()"
MonGate ==
    /\ mon.pc = "gate"
    /\ IF Gate(mon.charging, mem.enabled)
       THEN Running([mon EXCEPT !.pc = "should enable", !.en = mem.enabled])
       ELSE EndCycle([mon EXCEPT !.en = mem.enabled], "skipped")
    /\ UNCHANGED <<hw, mem, disk, conn, checkInterval, lastSet, run, events, faults>>

\* shouldEnable := d.stateManager.ShouldEnableConservation()
MonShouldEnable ==
    /\ mon.pc = "should enable"
    /\ Running([mon EXCEPT !.pc = "should disable", !.view = View(mem),
                            !.she = ShouldEnableConservation(mem)])
    /\ UNCHANGED <<hw, mem, disk, conn, checkInterval, lastSet, run, events, faults>>

\* shouldDisable := d.stateManager.ShouldDisableConservation(), then the branch
MonShouldDisable ==
    /\ mon.pc = "should disable"
    /\ LET shd == ShouldDisableConservation(mem)
           dec == Decision(mon.she, shd, mon.cons)
       IN  Running([mon EXCEPT !.shd = shd, !.view2 = View(mem),
                               !.pc = IF dec = "none" THEN "adjust" ELSE "write",
                               !.wval = (dec = "enable")])
    /\ UNCHANGED <<hw, mem, disk, conn, checkInterval, lastSet, run, events, faults>>

\* setConservationMode: os.WriteFile of "1" or "0"
MonWrite ==
    /\ mon.pc = "write"
    /\ \E o \in WriteOutcomes :
          /\ Fault(o)
          /\ hw' = HwWritten(mon.wval, o)
          /\ Running([mon EXCEPT !.writes = @ + 1,
                                 !.werr = IF o = "err" THEN "failed to write" ELSE "none",
                                 !.pc = IF o = "err" THEN "adjust" ELSE "verify"])
    /\ OtherMutation
    /\ UNCHANGED <<mem, disk, conn, checkInterval, lastSet, events>>

\* setConservationMode: the re-read; its result is only logged by the loop
MonVerify ==
    /\ mon.pc = "verify"
    /\ \E o \in {"ok", "err"} :
          /\ Fault(o)
          /\ Running([mon EXCEPT !.pc = "adjust",
                                 !.werr = setConservationMode(o, hw.cons, mon.wval),
                                 !.rr = Reread(o, hw.cons, mon.wval)])
    /\ UNCHANGED <<hw, mem, disk, conn, checkInterval, lastSet, run, events>>

\* d.adjustCheckInterval(batteryLevel)
MonAdjust ==
    /\ mon.pc = "adjust"
    /\ checkInterval' = adjustCheckInterval(mon.level, mem.threshold)
    /\ EndCycle(mon, "adjusted")
    /\ UNCHANGED <<hw, mem, disk, conn, lastSet, run, events, faults>>

Monitor ==
    \/ MonTick \/ MonUpdate \/ MonGate \/ MonShouldEnable \/ MonShouldDisable
    \/ MonWrite \/ MonVerify \/ MonAdjust

(* -------------------------- connection server ------------------------- *)
InFlight(c) == conn[c].pc \notin {"new", "open", "closed"}

\* decoder.Decode returned message m on connection c
Received(c, m) ==
    [NewConn EXCEPT !.pc = "open", !.msg = m, !.nreq = conn[c].nreq + 1,
                    !.ndisp = conn[c].ndisp, !.nresp = conn[c].nresp]
\* processRequest passed m to a handler
Dispatched(c, m) == [Received(c, m) EXCEPT !.ndisp = @ + 1, !.disp = TRUE]

\* connections are numbered in the order in which they are accepted
CanReceive(c) ==
    /\ conn[c].pc \in {"new", "open"}
    /\ conn[c].nreq < MaxPerConn
    /\ \A e \in Conns : e < c => conn[e].pc # "new"

(* The end of one pass of handleConnection's loop: encoder.Encode(response) *)
(* (d: outcome of the socket write), then return if the write failed or the *)
(* message was a response, otherwise back to decoder.Decode.  cr is the     *)
(* connection record the handler ends with.                                 *)
LoopAfterKeepOpen(m, d) == IF IsResponse(m) THEN "closed" ELSE "open"

LoopAfter(m, d) == IF d # "ok" \/ IsResponse(m) THEN "closed" ELSE "open"

Finish(c, cr, resp, d, set) ==
    /\ conn' = [conn EXCEPT ![c] =
                  [NewConn EXCEPT !.pc = LoopAfter(cr.msg, d),
                                  !.nreq = cr.nreq, !.ndisp = cr.ndisp,
                                  !.nresp = cr.nresp + (1 - Bad(d))]]
    /\ last' = [conn |-> c, msg |-> cr.msg,
                resp |-> IF d = "ok" THEN resp ELSE NoResponse,
                dispatched |-> cr.disp, should |-> cr.should, writes |-> cr.writes,
                wok |-> cr.wok, mut |-> cr.mut, post |-> cr.post, set |-> set,
                thr0 |-> mem.threshold, dthr0 |-> disk.threshold,
                fresh |-> cr.fresh, seen |-> cr.seen, serr |-> cr.serr,
                werr |-> cr.werr, rr |-> cr.rr, en0 |-> cr.en0, mode0 |-> cr.mode0]
    /\ cyc' = IdleMon
    /\ UNCHANGED <<storeVars, dmn, lk, qry>>

\* the client closes the connection, or the 30 s deadline passes
Close(c) ==
    /\ conn[c].pc = "open"
    /\ Event
    /\ conn' = [conn EXCEPT ![c].pc = "closed"]
    /\ NoReport
    /\ UNCHANGED <<hw, mem, disk, mon, checkInterval, lastSet, run, faults>>

\* processRequest answers without calling a handler
RecvInvalid(c) ==
    /\ CanReceive(c)
    /\ Event
    /\ \E m \in Messages, d \in {"ok", "err"} :
          /\ ~IsValidCommand(Route(m))
          /\ Fault(d)
          /\ lastSet' = lastSet
          /\ Finish(c, Received(c, m), NewErrorResponse(m.id), d, lastSet)
    /\ UNCHANGED <<hw, mem, disk, mon, checkInterval, run>>

\* handleDaemonStatus
RecvDaemonStatus(c) ==
    /\ CanReceive(c)
    /\ Event
    /\ \E m \in Messages, d \in {"ok", "err"} :
          /\ Route(m) = CmdDaemonStatus
          /\ Fault(d)
          /\ lastSet' = lastSet
          /\ Finish(c, Dispatched(c, m), NewSuccessResponse(m.id, NoData), d, lastSet)
    /\ UNCHANGED <<hw, mem, disk, mon, checkInterval, run>>

(* handleSetThreshold: parameter present, a float64, int(threshold) within *)
(* ValidateThreshold, then stateManager.SetChargeThreshold.                *)
ThresholdAccepted(p) ==
    /\ p.kind # "missing"
    /\ p.kind = "number"
    /\ ValidateThreshold(FloatToInt(p.tenths))

\* the request asks for an integer threshold within [60,100]
AsksValid(p) == IsInteger(p) /\ p.tenths >= 600 /\ p.tenths <= 1000
Asked(p, otherwise) == IF AsksValid(p) THEN p.tenths \div 10 ELSE otherwise

RecvSetThreshold(c) ==
    /\ CanReceive(c)
    /\ Event
    /\ \E m \in Messages, o \in SaveOutcomes, d \in {"ok", "err"} :
          LET p == m.param
              t == FloatToInt(p.tenths)
              s == SetChargeThreshold(mem, t)
              cr == Dispatched(c, m)
          IN  /\ Route(m) = CmdSetThreshold
              /\ IF ThresholdAccepted(p)
                 THEN /\ FaultN(Bad(o) + Bad(d))
                      /\ UpdateState(s, o)
                      /\ lastSet' = Asked(p, 0)
                      /\ run' = NoRun
                      /\ Finish(c, [cr EXCEPT !.mut = TRUE, !.serr = UpdateErr(s, o)],
                                IF UpdateErr(s, o) THEN NewErrorResponse(m.id)
                                ELSE NewSuccessResponse(m.id, [NoData EXCEPT !.threshold = t]),
                                d, Asked(p, 0))
                 ELSE /\ o = "ok"
                      /\ Fault(d)
                      /\ lastSet' = Asked(p, lastSet)
                      /\ Finish(c, cr, NewErrorResponse(m.id), d, Asked(p, lastSet))
                      /\ UNCHANGED <<mem, disk, run>>
    /\ UNCHANGED <<hw, mon, checkInterval>>

\* handleEnable up to and including stateManager.EnableConservation()
RecvEnable(c) ==
    /\ CanReceive(c)
    /\ Event
    /\ \E m \in Messages, o \in SaveOutcomes, d \in {"ok", "err"} :
          LET s == EnableConservation(mem)
              cr == [Dispatched(c, m) EXCEPT !.mut = TRUE, !.serr = UpdateErr(s, o),
                                             !.post = s.enabled /\ s.mode = "enabled",
                                             !.en0 = mem.enabled, !.mode0 = mem.mode]
          IN  /\ Route(m) = CmdEnable
              /\ UpdateState(s, o)
              /\ IF UpdateErr(s, o)
                 THEN /\ FaultN(Bad(o) + Bad(d))
                      /\ run' = NoRun
                      /\ Finish(c, cr, NewErrorResponse(m.id), d, lastSet)
                 ELSE /\ d = "ok"
                      /\ Fault(o)
                      /\ run' = run
                      /\ conn' = [conn EXCEPT ![c] = [cr EXCEPT !.pc = "should"]]
                      /\ NoReport
    /\ UNCHANGED <<hw, mon, checkInterval, lastSet>>

\* handleEnable: "if d.stateManager.ShouldEnableConservation()"
EnableShould(c) ==
    /\ conn[c].pc = "should"
    /\ LET sh == ShouldEnableConservation(mem) IN
       conn' = [conn EXCEPT ![c].should = sh, ![c].wval = TRUE,
                            ![c].pc = IF sh THEN "write" ELSE "reply"]
    /\ NoReport
    /\ UNCHANGED <<hw, mem, disk, mon, checkInterval, lastSet, run, events, faults>>

\* handleDisable up to the os.WriteFile of setConservationMode(false)
RecvDisable(c) ==
    /\ CanReceive(c)
    /\ Event
    /\ \E m \in Messages, o \in WriteOutcomes, d \in {"ok", "err"} :
          LET cr == [Dispatched(c, m) EXCEPT !.writes = 1, !.wval = FALSE,
                       !.werr = IF o = "err" THEN "failed to write" ELSE "none"] IN
          /\ Route(m) = CmdDisable
          /\ hw' = HwWritten(FALSE, o)
          /\ IF o = "err"
             THEN /\ FaultN(1 + Bad(d))
                  /\ Finish(c, cr, NewErrorResponse(m.id), d, lastSet)
             ELSE /\ d = "ok"
                  /\ Fault(o)
                  /\ conn' = [conn EXCEPT ![c] = [cr EXCEPT !.pc = "verify"]]
                  /\ NoReport
    /\ run' = NoRun
    /\ UNCHANGED <<mem, disk, mon, checkInterval, lastSet>>

\* setConservationMode called by handleEnable: os.WriteFile
HandlerWrite(c) ==
    /\ conn[c].pc = "write"
    /\ \E o \in WriteOutcomes, d \in {"ok", "err"} :
          LET cr == [conn[c] EXCEPT !.writes = @ + 1,
                       !.werr = IF o = "err" THEN "failed to write" ELSE "none"] IN
          /\ hw' = HwWritten(cr.wval, o)
          /\ IF o = "err"
             THEN /\ FaultN(1 + Bad(d))
                  /\ Finish(c, cr, NewErrorResponse(cr.msg.id), d, lastSet)
                  /\ run' = NoRun
             ELSE /\ d = "ok"
                  /\ Fault(o)
                  /\ conn' = [conn EXCEPT ![c] = [cr EXCEPT !.pc = "verify"]]
                  /\ NoReport
                  /\ run' = run
    /\ UNCHANGED <<mem, disk, mon, checkInterval, lastSet, events>>

(* setConservationMode: os.ReadFile (r: its outcome) and the comparison of *)
(* the value read with the value written.                                  *)
HandlerVerify(c) ==
    /\ conn[c].pc = "verify"
    /\ \E r \in {"ok", "err"}, d \in {"ok", "err"} :
          LET cr == [conn[c] EXCEPT !.wok = (hw.cons = conn[c].wval),
                       !.werr = setConservationMode(r, hw.cons, conn[c].wval),
                       !.rr = Reread(r, hw.cons, conn[c].wval)] IN
          IF cr.werr = "nil"
          THEN /\ d = "ok"
               /\ faults' = faults
               /\ conn' = [conn EXCEPT ![c] =
                              [cr EXCEPT !.pc = IF cr.msg.command = CmdDisable THEN "disable"
                                                ELSE "reply"]]
               /\ NoReport
               /\ run' = run
          ELSE /\ FaultN(Bad(r) + Bad(d))
               /\ Finish(c, cr, NewErrorResponse(cr.msg.id), d, lastSet)
               /\ run' = NoRun
    /\ UNCHANGED <<hw, mem, disk, mon, checkInterval, lastSet, events>>

\* handleDisable: stateManager.DisableConservation()
DisableState(c) ==
    /\ conn[c].pc = "disable"
    /\ \E o \in SaveOutcomes, d \in {"ok", "err"} :
          LET s == DisableConservation(mem)
              cr == [conn[c] EXCEPT !.mut = TRUE, !.serr = UpdateErr(s, o),
                                    !.post = ~s.enabled /\ s.mode = "disabled"]
          IN  /\ UpdateState(s, o)
              /\ IF UpdateErr(s, o)
                 THEN /\ FaultN(Bad(o) + Bad(d))
                      /\ Finish(c, cr, NewErrorResponse(cr.msg.id), d, lastSet)
                 ELSE /\ d = "ok"
                      /\ Fault(o)
                      /\ conn' = [conn EXCEPT ![c] = [cr EXCEPT !.pc = "reply"]]
                      /\ NoReport
    /\ run' = NoRun
    /\ UNCHANGED <<hw, mon, checkInterval, lastSet, events>>

\* handleStatus up to and including d.readBatteryInfo()
RecvStatus(c) ==
    /\ CanReceive(c)
    /\ Event
    /\ \E m \in Messages, r \in {"ok", "err"}, d \in {"ok", "err"} :
          LET cr == Dispatched(c, m) IN
          LET rd == readBatteryInfo(hw, r, mem) IN
          /\ Route(m) = CmdStatus
          /\ IF rd.err
             THEN /\ FaultN(Bad(r) + Bad(d))
                  /\ Finish(c, cr, NewErrorResponse(m.id), d, lastSet)
             ELSE /\ d = "ok"
                  /\ FaultN(Bad(r))
                  /\ conn' = [conn EXCEPT ![c] =
                                [cr EXCEPT !.pc = "update", !.level = rd.val.level,
                                           !.cons = rd.val.cons,
                                           !.charging = rd.val.charging,
                                           !.fresh = (r = "ok"),
                                           !.seen = IF r = "ok" THEN Reading(hw)
                                                    ELSE NoReading]]
                  /\ NoReport
    /\ UNCHANGED <<hw, mem, disk, mon, checkInterval, lastSet, run>>

\* handleStatus: stateManager.UpdateBatteryInfo, whose error is only logged
StatusUpdate(c) ==
    /\ conn[c].pc = "update"
    /\ \E o \in SaveOutcomes :
          LET s == UpdateBatteryInfo(mem, conn[c].level, conn[c].cons, conn[c].charging) IN
          /\ Fault(o)
          /\ UpdateState(s, o)
          /\ conn' = [conn EXCEPT ![c].pc = "reply", ![c].mut = TRUE,
                                  ![c].serr = UpdateErr(s, o)]
    /\ run' = NoRun
    /\ NoReport
    /\ UNCHANGED <<hw, mon, checkInterval, lastSet, events>>

\* the data of a success response, from state := d.stateManager.GetState()
ReplyData(cr, state) ==
    IF cr.msg.command = CmdStatus
    THEN [enabled |-> state.enabled, threshold |-> state.threshold, mode |-> state.mode,
          level |-> cr.level, cons |-> cr.cons, charging |-> cr.charging,
          lastAction |-> state.lastAction]
    ELSE IF cr.msg.command = CmdEnable
    THEN [NoData EXCEPT !.threshold = state.threshold, !.mode = state.mode]
    ELSE [NoData EXCEPT !.mode = state.mode]

\* a run of enable commands grows when one completes with nothing else in flight
RunAfter(c, cr) ==
    IF cr.msg.command # CmdEnable THEN run
    ELSE IF mon.pc # "idle" \/ \E e \in Conns \ {c} : InFlight(e) THEN NoRun
    ELSE IF run.n = 0 THEN [n |-> 1, writes |-> cr.writes, first |-> mem]
    ELSE [run EXCEPT !.n = @ + 1, !.writes = @ + cr.writes]

\* handleEnable / handleDisable / handleStatus: GetState and the success response
Reply(c) ==
    /\ conn[c].pc = "reply"
    /\ \E d \in {"ok", "err"} :
          /\ Fault(d)
          /\ Finish(c, conn[c],
                    NewSuccessResponse(conn[c].msg.id, ReplyData(conn[c], mem)), d, lastSet)
    /\ run' = RunAfter(c, conn[c])
    /\ UNCHANGED <<hw, mem, disk, mon, checkInterval, lastSet, events>>

Handler(c) ==
    \/ RecvInvalid(c) \/ RecvDaemonStatus(c) \/ RecvSetThreshold(c)
    \/ RecvEnable(c) \/ EnableShould(c) \/ RecvDisable(c)
    \/ HandlerWrite(c) \/ HandlerVerify(c) \/ DisableState(c)
    \/ RecvStatus(c) \/ StatusUpdate(c) \/ Reply(c) \/ Close(c)

Next == HwChange \/ Monitor \/ \E c \in Conns : Handler(c)

Spec == Init /\ [][Next]_vars

(* ====================== the state file, step by step =================== *)
(* One Manager at a time works on the file (Load, Save and UpdateState hold *)
(* the write lock), so its operations are sequential; the process can be    *)
(* killed between any two system calls.                                     *)
Defaults(w) == Timed(createDefaultState, Now(w))
Configured ==
    Timed([enabled |-> TRUE, threshold |-> 60, mode |-> "enabled",
           lastAction |-> "set_threshold", level |-> 75, cons |-> TRUE,
           charging |-> TRUE, pid |-> Pid], Now(1))
\* states a Manager may hold: two valid ones and one that fails validation
StoreStates == {Defaults(1), Configured, [Configured EXCEPT !.level = 101]}
ValidStates == {s \in StoreStates : validateStateFields(s) = "nil"}

\* the text {} : JSON, but no valid state
EmptyObject == [exists |-> TRUE, complete |-> TRUE, keys |-> {}, obj |-> ZeroState]
InitialFiles == {Absent, Truncated, EmptyObject} \cup {Encode(s) : s \in ValidStates}

\* no request and no monitoring cycle is looked at
RunIdle ==
    /\ hw = [level |-> 70, cons |-> FALSE, charging |-> FALSE]
    /\ mem = SetDaemonInfo(createDefaultState, Pid)
    /\ disk = mem
    /\ mon = IdleMon
    /\ conn = [c \in Conns |-> NewConn]
    /\ checkInterval = 30
    /\ last = NoExchange
    /\ cyc = IdleMon
    /\ lastSet = 0
    /\ run = NoRun
    /\ events = 0
    /\ faults = 0

\* the daemon is not running while the store is looked at
DaemonIdle == RunIdle /\ dmn = NewDaemon(TRUE) /\ LockIdle

StoreInit ==
    /\ DaemonIdle
    /\ file \in InitialFiles
    /\ tmp = Absent /\ bak = Absent
    /\ mgr = [NewManager EXCEPT !.orig = file]

\* an operation returns: err, and whether a system call failed in it
Return(m, err, failed) == [m EXCEPT !.pc = "idle", !.err = err, !.failed = failed]

\* test code or a mutator changes m.state
Mutate ==
    /\ mgr.pc = "idle"
    /\ \E s \in StoreStates :
          /\ s # mgr.state
          /\ mgr' = [mgr EXCEPT !.state = s, !.op = "none", !.err = FALSE,
                                !.failed = FALSE, !.fresh = FALSE]
    /\ UNCHANGED <<file, tmp, bak, daemonVars>>

(* saveStateAtomic up to os.Create(tempPath): validateState, MkdirAll,      *)
(* Create.  m is the Manager entering it, o the outcome of the two calls.   *)
Created(m, o) ==
    IF validateStateFields(m.state) # "nil" THEN Return(m, TRUE, FALSE)
    ELSE IF o # "ok" THEN Return(m, TRUE, TRUE)
    ELSE [m EXCEPT !.pc = "created", !.prev = file, !.failed = FALSE]

\* a save that opens the state file itself for writing
SaveCreateInPlace(m, o) ==
    /\ mgr' = Created(m, o)
    /\ file' = IF mgr'.pc = "created" THEN Truncated ELSE file
    /\ tmp' = tmp

SaveCreate(m, o) ==
    /\ mgr' = Created(m, o)
    /\ tmp' = IF mgr'.pc = "created" THEN Truncated ELSE tmp
    /\ file' = file

\* Manager.Save
Save ==
    /\ mgr.pc = "idle"
    /\ \E o \in {"ok", "fail"} :
          SaveCreate([mgr EXCEPT !.op = "save", !.was = file, !.fresh = FALSE], o)
    /\ UNCHANGED <<bak, daemonVars>>

\* a failed step of the save: os.Remove(tempPath) and the error
SaveFails ==
    /\ tmp' = Absent
    /\ mgr' = Return(mgr, TRUE, TRUE)
    /\ file' = file

\* encoder.Encode(m.state)
SaveWrite ==
    /\ mgr.pc = "created"
    /\ \/ tmp' = Encode(mgr.state) /\ mgr' = [mgr EXCEPT !.pc = "written"] /\ file' = file
       \/ SaveFails
    /\ UNCHANGED <<bak, daemonVars>>

\* file.Sync()
SaveSync ==
    /\ mgr.pc = "written"
    /\ \/ mgr' = [mgr EXCEPT !.pc = "synced"] /\ UNCHANGED <<file, tmp>>
       \/ SaveFails
    /\ UNCHANGED <<bak, daemonVars>>

\* file.Close()
SaveClose ==
    /\ mgr.pc = "synced"
    /\ \/ mgr' = [mgr EXCEPT !.pc = "closed"] /\ UNCHANGED <<file, tmp>>
       \/ SaveFails
    /\ UNCHANGED <<bak, daemonVars>>

\* os.Rename(tempPath, m.statePath)
SaveRename ==
    /\ mgr.pc = "closed"
    /\ \/ /\ file' = tmp
          /\ tmp' = Absent
          /\ mgr' = [mgr EXCEPT !.pc = "renamed", !.saved = NoSaved]
       \/ SaveFails
    /\ UNCHANGED <<bak, daemonVars>>

\* os.Chmod(m.statePath, 0644) and the return
SaveChmod ==
    /\ mgr.pc = "renamed"
    /\ \/ mgr' = [Return(mgr, FALSE, FALSE) EXCEPT
                     !.saved = [some |-> TRUE, state |-> mgr.state]]
       \/ mgr' = Return(mgr, TRUE, TRUE)
    /\ UNCHANGED <<file, tmp, bak, daemonVars>>

(* Manager.Load when the file exists: os.ReadFile (r: its outcome),        *)
(* json.Unmarshal, validateState; defaults when the content is unusable.    *)
Loaded(m, f, r) ==
    LET u == Unmarshal(f) IN
    IF r # "ok" THEN Return(m, TRUE, TRUE)
    ELSE IF u.err THEN Return([m EXCEPT !.state = Defaults(2)], TRUE, FALSE)
    ELSE IF validateStateFields(u.state) # "nil"
    THEN Return([m EXCEPT !.state = Defaults(2)], TRUE, FALSE)
    ELSE Return([m EXCEPT !.state = u.state], FALSE, FALSE)

\* Manager.Load: without a file, the defaults and saveStateAtomic
Load ==
    /\ mgr.pc = "idle"
    /\ LET m == [mgr EXCEPT !.op = "load", !.was = file] IN
       IF ~file.exists
       THEN \E o \in {"ok", "fail"} : SaveCreate([m EXCEPT !.state = Defaults(2)], o)
       ELSE \E r \in {"ok", "fail"} :
               mgr' = Loaded(m, file, r) /\ UNCHANGED <<file, tmp>>
    /\ UNCHANGED <<bak, daemonVars>>

(* The process is killed or the machine loses power.  Data written and not  *)
(* yet synced may be lost; a rename not yet on disk may be undone, whole.   *)
Crash ==
    /\ mgr.pc # "crashed"
    /\ mgr' = [mgr EXCEPT !.pc = "crashed",
                          !.prev = IF mgr.pc = "idle" THEN file ELSE @]
    /\ \/ UNCHANGED <<file, tmp>>
       \/ mgr.pc = "written" /\ tmp' = Truncated /\ file' = file
       \/ mgr.pc = "renamed" /\ file' = mgr.prev /\ tmp' = Encode(mgr.state)
    /\ UNCHANGED <<bak, daemonVars>>

\* the next process: NewManager on the same path
Restart ==
    /\ mgr.pc = "crashed"
    /\ mgr' = [NewManager EXCEPT !.orig = mgr.orig]
    /\ UNCHANGED <<file, tmp, bak, daemonVars>>

\* a fresh Manager on the same path, in the same process
Reopen ==
    /\ mgr.pc = "idle"
    /\ mgr' = [NewManager EXCEPT !.orig = mgr.orig, !.saved = mgr.saved]
    /\ mgr' # mgr
    /\ UNCHANGED <<file, tmp, bak, daemonVars>>

StoreNext ==
    \/ Mutate \/ Save \/ SaveWrite \/ SaveSync \/ SaveClose \/ SaveRename \/ SaveChmod
    \/ Load \/ Crash \/ Restart \/ Reopen

StoreSpec == StoreInit /\ [][StoreNext]_vars

(* ========================= backup and restore ========================= *)
BackupInit ==
    /\ DaemonIdle
    /\ file \in InitialFiles
    /\ tmp = Absent
    /\ bak \in {Absent, Truncated}
    /\ mgr = [NewManager EXCEPT !.orig = file]

(* Manager.Backup: nothing without a state file; else os.ReadFile (r) and   *)
(* os.WriteFile of the backup (w), which truncates the file before writing. *)
Backup ==
    /\ mgr.pc = "idle"
    /\ LET m == [mgr EXCEPT !.op = "backup", !.bk = NoBackup] IN
       IF ~file.exists
       THEN mgr' = Return(m, FALSE, FALSE) /\ bak' = bak
       ELSE \E r, w \in {"ok", "fail"} :
               IF r # "ok" THEN mgr' = Return(m, TRUE, TRUE) /\ bak' = bak
               ELSE IF w # "ok"
               THEN mgr' = Return(m, TRUE, TRUE) /\ bak' \in {bak, Truncated}
               ELSE /\ bak' = file
                    /\ mgr' = Return([m EXCEPT !.bk = [some |-> TRUE, state |-> mgr.state,
                                                       file |-> file]], FALSE, FALSE)
    /\ UNCHANGED <<file, tmp, daemonVars>>

\* Restore with the backup read (r) and parsed: m.state = &state
RestoredKeepsState(m, b, r) ==
    IF r # "ok" THEN Return(m, TRUE, TRUE)
    ELSE IF Unmarshal(b).err THEN Return(m, TRUE, FALSE)
    ELSE m

Restored(m, b, r) ==
    IF r # "ok" THEN Return(m, TRUE, TRUE)
    ELSE IF Unmarshal(b).err THEN Return(m, TRUE, FALSE)
    ELSE [m EXCEPT !.state = Unmarshal(b).state]

(* Manager.Restore: ErrNoBackup without a backup file; else os.ReadFile,    *)
(* json.Unmarshal, m.state = &state and saveStateAtomic.                    *)
Restore ==
    /\ mgr.pc = "idle"
    /\ LET m == [mgr EXCEPT !.op = "restore", !.kind = "nil", !.pre = mgr.state,
                            !.was = file, !.hadbak = bak.exists, !.fresh = FALSE]
       IN  IF ~bak.exists
           THEN /\ mgr' = [Return(m, TRUE, FALSE) EXCEPT !.kind = "ErrNoBackup"]
                /\ UNCHANGED <<file, tmp>>
           ELSE \E r, o \in {"ok", "fail"} :
                   LET n == Restored(m, bak, r) IN
                   IF r # "ok" \/ Unmarshal(bak).err
                   THEN mgr' = [n EXCEPT !.kind = "other"] /\ UNCHANGED <<file, tmp>>
                   ELSE SaveCreate(n, o)
    /\ UNCHANGED <<bak, daemonVars>>

BackupNext ==
    \/ Mutate \/ Save \/ SaveWrite \/ SaveSync \/ SaveClose \/ SaveRename \/ SaveChmod
    \/ Backup \/ Restore

BackupSpec == BackupInit /\ [][BackupNext]_vars

(* ======================== start and shutdown ========================== *)
\* a save that skips validateState
SavedAsUnchecked(s, f, o) ==
    IF o = "fail" THEN [err |-> TRUE, file |-> f]
    ELSE [err |-> o # "ok", file |-> Encode(s)]

\* saveStateAtomic as a whole, on the file: o is what the file system does
SavedAs(s, f, o) ==
    IF validateStateFields(s) # "nil" \/ o = "fail" THEN [err |-> TRUE, file |-> f]
    ELSE [err |-> o # "ok", file |-> Encode(s)]

LifeInit ==
    /\ RunIdle
    /\ file \in InitialFiles
    /\ tmp = Absent /\ bak = Absent
    /\ mgr = [NewManager EXCEPT !.orig = file]
    /\ dmn \in {NewDaemon(v) : v \in BOOLEAN}
    /\ LockIdle

\* Start returns an error from step at; io: a system call failed
StartFails(at, io) == dmn' = [dmn EXCEPT !.pc = "failed", !.at = at, !.iofail = io]

\* Start: state.NewManager, stateManager.Load()
StartLoad ==
    /\ dmn.pc = "new" /\ dmn.alive
    /\ LET m == [mgr EXCEPT !.op = "load", !.was = file] IN
       IF ~file.exists
       THEN \E o \in SaveOutcomes :
               LET sv == SavedAs(Defaults(2), file, o) IN
               /\ file' = sv.file
               /\ mgr' = Return([m EXCEPT !.state = Defaults(2)], sv.err, o # "ok")
       ELSE \E r \in {"ok", "fail"} : mgr' = Loaded(m, file, r) /\ file' = file
    /\ IF mgr'.err THEN StartFails("load", mgr'.failed)
       ELSE dmn' = [dmn EXCEPT !.pc = "loaded"]
    /\ UNCHANGED <<tmp, bak, runVars, lk, qry>>

\* Start: stateManager.SetDaemonInfo(os.Getpid())
StartSetInfo ==
    /\ dmn.pc = "loaded" /\ dmn.alive
    /\ \E o \in SaveOutcomes :
          LET s == [SetDaemonInfo(mgr.state, Pid) EXCEPT !.startTime = Now(2)]
              sv == SavedAs(s, file, o)
          IN  /\ file' = sv.file
              /\ mgr' = Return([mgr EXCEPT !.state = s, !.op = "info"], sv.err, o # "ok")
              /\ IF sv.err THEN StartFails("info", TRUE)
                 ELSE dmn' = [dmn EXCEPT !.pc = "info"]
    /\ UNCHANGED <<tmp, bak, runVars, lk, qry>>

\* Start: createSocketListener
StartSocket ==
    /\ dmn.pc = "info" /\ dmn.alive
    /\ \/ dmn' = [dmn EXCEPT !.pc = "bound", !.listener = "open", !.sock = TRUE]
       \/ StartFails("socket", TRUE)
    /\ UNCHANGED <<storeVars, runVars, lk, qry>>

\* Start: writePIDFile, running = true, the three goroutines
StartPidFile ==
    /\ dmn.pc = "bound" /\ dmn.alive
    /\ \/ dmn' = [dmn EXCEPT !.pc = "started", !.pidfile = TRUE, !.running = TRUE,
                             !.srv = "run", !.monl = "run", !.sig = "run"]
       \/ dmn' = [dmn EXCEPT !.pc = "failed", !.at = "pidfile", !.iofail = TRUE,
                             !.listener = "closed", !.sock = FALSE]
    /\ UNCHANGED <<storeVars, runVars, lk, qry>>

Started == dmn.pc = "started" /\ dmn.alive

\* Start: if d.running
AlreadyRunningNever(d) == FALSE
AlreadyRunning(d) == d.running

(* Start called again on a daemon that was started and not stopped: it      *)
(* returns "daemon is already running"; otherwise it would go on to Load.   *)
StartAgain ==
    /\ Started /\ dmn.stop = "none" /\ dmn.running /\ dmn.refused < MaxStarts
    /\ IF AlreadyRunning(dmn)
       THEN dmn' = [dmn EXCEPT !.refused = @ + 1]
       ELSE dmn' = [dmn EXCEPT !.pc = "new"]
    /\ UNCHANGED <<storeVars, runVars, lk, qry>>

(* Start, or Run, called on a Daemon value that was started and stopped,   *)
(* once the goroutines of its first run have ended: running is false, so   *)
(* Start goes on to state.NewManager and Load.  The done channel made by   *)
(* NewDaemon stays closed.                                                  *)
StartAfterStop ==
    /\ dmn.pc = "started" /\ dmn.alive /\ ~dmn.viaRun
    /\ ~AlreadyRunning(dmn) /\ dmn.stop = "none" /\ dmn.stops > 0
    /\ dmn.starts < MaxStarts
    /\ dmn.srv = "exited" /\ dmn.monl = "exited" /\ dmn.sig = "exited"
    /\ dmn.hc # "handling"
    /\ \E v \in BOOLEAN :
          dmn' = [dmn EXCEPT !.pc = "new", !.viaRun = v, !.starts = @ + 1, !.stops = 0,
                             !.hc = "none", !.accepted = "none"]
    /\ mgr' = [NewManager EXCEPT !.orig = file]
    /\ UNCHANGED <<file, tmp, bak, runVars, lk, qry>>

\* serveConnections: Accept returns a connection, go handleConnection
Accept ==
    /\ Started /\ dmn.srv = "run" /\ dmn.listener = "open" /\ dmn.hc = "none"
    /\ dmn' = [dmn EXCEPT !.hc = "handling",
                          !.accepted = IF dmn.done THEN "during" ELSE "before"]
    /\ UNCHANGED <<storeVars, runVars, lk, qry>>

\* handleConnection: the response is written
Respond ==
    /\ Started /\ dmn.hc = "handling"
    /\ dmn' = [dmn EXCEPT !.hc = "responded"]
    /\ UNCHANGED <<storeVars, runVars, lk, qry>>

\* serveConnections: Accept fails on the closed listener and done is closed
ServeExit ==
    /\ Started /\ dmn.srv = "run" /\ dmn.listener = "closed" /\ dmn.done
    /\ dmn' = [dmn EXCEPT !.srv = "exited"]
    /\ UNCHANGED <<storeVars, runVars, lk, qry>>

\* monitorBattery: select takes ticker.C
MonitorTick ==
    /\ Started /\ dmn.monl = "run"
    /\ dmn' = [dmn EXCEPT !.monl = "checking"]
    /\ UNCHANGED <<storeVars, runVars, lk, qry>>

\* monitorBattery: checkBatteryAndAdjust returns
MonitorChecked ==
    /\ Started /\ dmn.monl = "checking"
    /\ dmn' = [dmn EXCEPT !.monl = "run"]
    /\ UNCHANGED <<storeVars, runVars, lk, qry>>

\* monitorBattery: select takes d.done
MonitorExit ==
    /\ Started /\ dmn.monl = "run" /\ dmn.done
    /\ dmn' = [dmn EXCEPT !.monl = "exited"]
    /\ UNCHANGED <<storeVars, runVars, lk, qry>>

\* handleSignals: select takes d.done
SignalExit ==
    /\ Started /\ dmn.sig = "run" /\ dmn.done
    /\ dmn' = [dmn EXCEPT !.sig = "exited"]
    /\ UNCHANGED <<storeVars, runVars, lk, qry>>

(* Daemon.Stop up to d.running = false, called by handleSignals on SIGINT   *)
(* or SIGTERM ("signal") or by the program that started the daemon ("api"). *)
StopBegin ==
    /\ dmn.alive /\ dmn.stop = "none" /\ dmn.stops < MaxStops
    /\ dmn.pc \in {"started", "failed"}
    /\ \E caller \in {"signal", "api"} :
          /\ caller = "signal" => (dmn.pc = "started" /\ dmn.sig = "run")
          /\ IF ~dmn.running
             THEN dmn' = [dmn EXCEPT !.stops = @ + 1,
                            !.sig = IF caller = "signal" THEN "exited" ELSE @]
             ELSE IF dmn.done
             THEN \* close of a closed channel: the panic ends the process
                  dmn' = [dmn EXCEPT !.alive = FALSE, !.stop = "panic",
                            !.hc = IF @ = "handling" THEN "killed" ELSE @,
                            !.srv = "exited", !.monl = "exited", !.sig = "exited"]
             ELSE dmn' = [dmn EXCEPT !.done = TRUE, !.running = FALSE,
                            !.stop = caller,
                            !.sig = IF caller = "signal" THEN "stopping" ELSE @]
    /\ UNCHANGED <<storeVars, runVars, lk, qry>>

\* Daemon.Stop: listener.Close(), the socket and PID files removed, return nil
StopEndKeepPid ==
    /\ dmn.alive /\ dmn.stop # "none"
    /\ dmn' = [dmn EXCEPT !.listener = "closed", !.sock = FALSE,
                          !.stops = @ + 1, !.stop = "none",
                          !.sig = IF dmn.stop = "signal" THEN "exited" ELSE @]
    /\ UNCHANGED <<storeVars, runVars, lk, qry>>

StopEnd ==
    /\ dmn.alive /\ dmn.stop # "none"
    /\ dmn' = [dmn EXCEPT !.listener = "closed", !.sock = FALSE, !.pidfile = FALSE,
                          !.stops = @ + 1, !.stop = "none",
                          !.sig = IF dmn.stop = "signal" THEN "exited" ELSE @]
    /\ UNCHANGED <<storeVars, runVars, lk, qry>>

(* Run: <-d.done, return; RunDaemon and main return and the process ends,   *)
(* with every goroutine that is still running.                              *)
Exit ==
    /\ Started /\ dmn.viaRun /\ dmn.done
    /\ dmn' = [dmn EXCEPT !.alive = FALSE,
                          !.hc = IF @ = "handling" THEN "killed" ELSE @,
                          !.srv = "exited", !.monl = "exited", !.sig = "exited"]
    /\ UNCHANGED <<storeVars, runVars, lk, qry>>

LifeNext ==
    \/ StartLoad \/ StartSetInfo \/ StartSocket \/ StartPidFile \/ StartAgain
    \/ StartAfterStop
    \/ Accept \/ Respond \/ ServeExit
    \/ MonitorTick \/ MonitorChecked \/ MonitorExit \/ SignalExit
    \/ StopBegin \/ StopEnd \/ Exit

LifeSpec == LifeInit /\ [][LifeNext]_vars

(* ===================== the Manager under its lock ===================== *)
(* Goroutines (connection handlers, the monitoring loop) call the Manager's  *)
(* methods at any time.  A method is followed statement by statement: the   *)
(* lock, each assignment of the mutator, the save, the unlock; a reader     *)
(* copies the struct field by field.  "status" is what handleStatus does   *)
(* with the Manager: UpdateBatteryInfo, its error ignored, then GetState.   *)
Mutations ==
    {[name |-> "enable", arg |-> 0], [name |-> "disable", arg |-> 0],
     [name |-> "set_threshold", arg |-> 70], [name |-> "battery", arg |-> 101],
     [name |-> "status", arg |-> 85]}
Ops == Mutations \cup {[name |-> "get", arg |-> 0]}

\* an UpdateBatteryInfo that leaves LastAction and LastActionTime alone
AssignmentsKeepAction(op, t) ==
    IF op.name = "enable"
    THEN << <<"enabled", TRUE>>, <<"mode", "enabled">>, <<"lastAction", "enable">>,
            <<"lastActionTime", Now(t)>> >>
    ELSE IF op.name = "disable"
    THEN << <<"enabled", FALSE>>, <<"mode", "disabled">>, <<"lastAction", "disable">>,
            <<"lastActionTime", Now(t)>> >>
    ELSE IF op.name = "set_threshold"
    THEN << <<"threshold", op.arg>>, <<"lastAction", "set_threshold">>,
            <<"lastActionTime", Now(t)>> >>
    ELSE << <<"level", op.arg>>, <<"cons", TRUE>>, <<"charging", TRUE>> >>

\* the assignments of the function a mutator hands to UpdateState, in order
Assignments(op, t) ==
    IF op.name = "enable"
    THEN << <<"enabled", TRUE>>, <<"mode", "enabled">>, <<"lastAction", "enable">>,
            <<"lastActionTime", Now(t)>> >>
    ELSE IF op.name = "disable"
    THEN << <<"enabled", FALSE>>, <<"mode", "disabled">>, <<"lastAction", "disable">>,
            <<"lastActionTime", Now(t)>> >>
    ELSE IF op.name = "set_threshold"
    THEN << <<"threshold", op.arg>>, <<"lastAction", "set_threshold">>,
            <<"lastActionTime", Now(t)>> >>
    ELSE << <<"level", op.arg>>, <<"cons", TRUE>>, <<"charging", TRUE>>,
            <<"lastAction", "auto">>, <<"lastActionTime", Now(t)>> >>

\* the mutator as a whole
Whole(op, s, t) ==
    LET u == IF op.name = "enable" THEN EnableConservation(s)
             ELSE IF op.name = "disable" THEN DisableConservation(s)
             ELSE IF op.name = "set_threshold" THEN SetChargeThreshold(s, op.arg)
             ELSE UpdateBatteryInfo(s, op.arg, TRUE, TRUE)
    IN  [u EXCEPT !.lastActionTime = Now(t)]

\* the fields of State in the order of the struct
StateFields ==
    <<"enabled", "threshold", "mode", "lastAction", "lastActionTime", "level", "cons",
      "charging", "pid", "startTime">>

\* mutex.Lock() and mutex.RLock() return
CanLockAlways(l) == TRUE
CanLock(l) == l.w = 0 /\ l.r = {}

CanRLockAlways(l) == TRUE
CanRLock(l) == l.w = 0

\* a daemon that has started: Load and SetDaemonInfo are done and saved
LockInit ==
    /\ RunIdle
    /\ dmn = NewDaemon(TRUE)
    /\ qry = NoQuery
    /\ tmp = Absent /\ bak = Absent
    /\ \E s \in {[Defaults(2) EXCEPT !.pid = Pid]} :
          /\ mgr = [NewManager EXCEPT !.state = s]
          /\ file = Encode(s)
          /\ lk = [NewLock EXCEPT !.committed = {s}]

Proc(p, q) == lk' = [lk EXCEPT !.proc[p] = q]

\* a goroutine calls a mutator or GetState
Call(p) ==
    /\ lk.proc[p].pc = "idle" /\ lk.calls < MaxCalls
    /\ \E op \in Ops :
          lk' = [lk EXCEPT !.calls = @ + 1,
                           !.proc[p] = [IdleProc EXCEPT !.op = op,
                                          !.pc = IF op \in Mutations THEN "lock"
                                                 ELSE "rlock"]]
    /\ UNCHANGED <<storeVars, daemonVarsNoLock>>

\* UpdateState: m.mutex.Lock()
Lock(p) ==
    /\ lk.proc[p].pc = "lock" /\ CanLock(lk)
    /\ lk' = [lk EXCEPT !.w = p, !.clock = @ + 1,
                        !.proc[p] = [@ EXCEPT !.pc = "mutate", !.k = 1,
                                              !.pre = mgr.state, !.t = lk.clock]]
    /\ UNCHANGED <<storeVars, daemonVarsNoLock>>

\* UpdateState: updateFn(m.state), one assignment
Assign(p) ==
    /\ lk.proc[p].pc = "mutate"
    /\ LET q == lk.proc[p]
           as == Assignments(q.op, q.t)
       IN  /\ mgr' = [mgr EXCEPT !.state[as[q.k][1]] = as[q.k][2]]
           /\ Proc(p, [q EXCEPT !.k = @ + 1,
                                 !.pc = IF q.k = Len(as) THEN "save" ELSE "mutate"])
    /\ UNCHANGED <<file, tmp, bak, daemonVarsNoLock>>

\* UpdateState: return m.saveStateAtomic()
LockedSave(p) ==
    /\ lk.proc[p].pc = "save"
    /\ \E o \in SaveOutcomes :
          LET sv == SavedAs(mgr.state, file, o) IN
          /\ file' = sv.file
          /\ Proc(p, [lk.proc[p] EXCEPT !.pc = "unlock", !.snap = mgr.state,
                         !.res = IF ~sv.err THEN "nil"
                                 ELSE IF validateStateFields(mgr.state) # "nil"
                                 THEN "invalid state" ELSE "io"])
    /\ UNCHANGED <<tmp, mgr, bak, daemonVarsNoLock>>

\* UpdateState: the deferred m.mutex.Unlock()
Unlock(p) ==
    /\ lk.proc[p].pc = "unlock"
    /\ lk' = [lk EXCEPT !.w = IF @ = p THEN 0 ELSE @,
                        !.committed = @ \cup {mgr.state},
                        !.proc[p] = [@ EXCEPT !.pc = IF lk.proc[p].op.name = "status" THEN "rlock"
                                                     ELSE "idle"]]
    /\ UNCHANGED <<storeVars, daemonVarsNoLock>>

\* GetState: m.mutex.RLock()
RLock(p) ==
    /\ lk.proc[p].pc = "rlock" /\ CanRLock(lk)
    /\ lk' = [lk EXCEPT !.r = @ \cup {p},
                        !.proc[p] = [@ EXCEPT !.pc = "copy", !.k = 1]]
    /\ UNCHANGED <<storeVars, daemonVarsNoLock>>

\* GetState: state := *m.state, one field
Copy(p) ==
    /\ lk.proc[p].pc = "copy"
    /\ LET q == lk.proc[p]
           f == StateFields[q.k]
       IN  Proc(p, [q EXCEPT !.snap[f] = mgr.state[f], !.k = @ + 1,
                             !.pc = IF q.k = Len(StateFields) THEN "runlock"
                                    ELSE "copy"])
    /\ UNCHANGED <<storeVars, daemonVarsNoLock>>

\* GetState: the deferred m.mutex.RUnlock(), return state
RUnlock(p) ==
    /\ lk.proc[p].pc = "runlock"
    /\ lk' = [lk EXCEPT !.r = @ \ {p}, !.proc[p] = [@ EXCEPT !.pc = "idle"]]
    /\ UNCHANGED <<storeVars, daemonVarsNoLock>>

LockNext ==
    \E p \in Procs :
       \/ Call(p) \/ Lock(p) \/ Assign(p) \/ LockedSave(p) \/ Unlock(p)
       \/ RLock(p) \/ Copy(p) \/ RUnlock(p)

LockSpec == LockInit /\ [][LockNext]_vars

(* ==================== queries of a Manager's state ==================== *)
(* A Manager whose state was set field by field, as the tests do, and the   *)
(* read-only methods called on it.                                          *)
QueryLevels == {-1, 0, 59, 60, 80, 100, 101}
QueryThresholds == {59, 60, 80, 100, 101}
QueryStates ==
    {Timed([enabled |-> en, threshold |-> th, mode |-> mo, lastAction |-> "init",
            level |-> lv, cons |-> FALSE, charging |-> ch, pid |-> pi], Now(1)) :
       en \in BOOLEAN, ch \in BOOLEAN, lv \in QueryLevels, th \in QueryThresholds,
       mo \in {"enabled", "unknown", "invalid"}, pi \in {-1, 0, Pid}}

QueryInit ==
    /\ RunIdle
    /\ dmn = NewDaemon(TRUE)
    /\ lk = NewLock
    /\ qry = NoQuery
    /\ file = Absent /\ tmp = Absent /\ bak = Absent
    /\ mgr \in {[NewManager EXCEPT !.state = s] : s \in QueryStates}

Answer(fn, b, err) ==
    /\ qry' = [NoQuery EXCEPT !.fn = fn, !.bool = b, !.err = err, !.on = mgr.state]
    /\ UNCHANGED <<storeVars, runVars, dmn, lk>>

QueryShouldEnable == Answer("ShouldEnableConservation", ShouldEnableConservation(mgr.state), "nil")
QueryShouldDisable == Answer("ShouldDisableConservation", ShouldDisableConservation(mgr.state), "nil")
QueryValidate == Answer("Validate", FALSE, Validate(mgr.state))

QueryNext == QueryShouldEnable \/ QueryShouldDisable \/ QueryValidate

QuerySpec == QueryInit /\ [][QueryNext]_vars

(* ========================= the check interval ========================= *)
(* Everything that assigns d.checkInterval after NewDaemon: the two setters *)
(* and the monitoring loop's adjustment.                                    *)
Intervals == {-5, 0, 9, 10, 11, 45, 599, 600, 601, 900}
IntervalLevels == {0, 65, 66, 75, 76, 80, 84, 85, 94, 95, 100}

IntervalInit ==
    /\ RunIdle
    /\ dmn = NewDaemon(TRUE)
    /\ StoreIdle
    /\ LockIdle

IntervalSet(fn, arg, interval) ==
    /\ checkInterval' = interval
    /\ qry' = [NoQuery EXCEPT !.fn = fn, !.arg = arg, !.prev = checkInterval]
    /\ UNCHANGED <<hw, mem, disk, mon, conn, last, cyc, lastSet, run, events, faults>>
    /\ UNCHANGED <<storeVars, dmn, lk>>

CallSetCheckInterval ==
    \E i \in Intervals : IntervalSet("SetCheckInterval", i, SetCheckInterval(i))

CallSetMonitoringInterval ==
    \E i \in Intervals : IntervalSet("SetMonitoringInterval", i, SetMonitoringInterval(i))

\* checkBatteryAndAdjust: d.adjustCheckInterval(batteryLevel)
CallAdjust ==
    \E l \in IntervalLevels :
       IntervalSet("adjustCheckInterval", l, adjustCheckInterval(l, mem.threshold))

IntervalNext == CallSetCheckInterval \/ CallSetMonitoringInterval \/ CallAdjust

IntervalSpec == IntervalInit /\ [][IntervalNext]_vars

(* ===================== the two locks of the daemon ===================== *)
(* The Manager's mutex ("state") and the Daemon's mutex ("control"), and    *)
(* the goroutines that take them: the monitoring loop (1), two connection   *)
(* handlers (2, 3), and a caller of Stop (3).  Each is followed from lock   *)
(* call to unlock call in the order of its code; MaxCalls of them start.    *)
Acq(l, m) == [op |-> "acq", lock |-> l, mode |-> m]
Rel(l, m) == [op |-> "rel", lock |-> l, mode |-> m]
\* a method that locks, defers the unlock and calls nothing that locks
Locked(l, m) == <<Acq(l, m), Rel(l, m)>>

\* an UpdateState whose validateState takes the read lock it "requires"
UpdateStateLocksRevalidate ==
    <<Acq("state", "w"), Acq("state", "r"), Rel("state", "r"), Rel("state", "w")>>

\* UpdateState: Lock, updateFn, saveStateAtomic (validateState locks nothing), Unlock
UpdateStateLocks == Locked("state", "w")

\* GetState, GetConservationEnabled, GetChargeThreshold, Should*, GetUptime
ReadLocks == Locked("state", "r")
\* Daemon.IsRunning, Daemon.Stop
IsRunningLocks == Locked("control", "r")
StopLocks == Locked("control", "w")

HandlerKinds == {CmdEnable, CmdDisable, CmdStatus, CmdSetThreshold, CmdDaemonStatus}
CycleKinds == {"cycle", "cycle skipped"}
Kinds(p) ==
    IF p = 1 THEN CycleKinds
    ELSE IF p = 2 THEN HandlerKinds
    ELSE HandlerKinds \cup {"stop"}

(* the lock calls of a handler or of checkBatteryAndAdjust, in order        *)
LocksOf(kind) ==
    IF kind = CmdEnable
    THEN UpdateStateLocks \o ReadLocks \o ReadLocks
    ELSE IF kind = CmdDisable THEN UpdateStateLocks \o ReadLocks
    ELSE IF kind = CmdStatus THEN UpdateStateLocks \o ReadLocks \o ReadLocks
    ELSE IF kind = CmdSetThreshold THEN UpdateStateLocks
    ELSE IF kind = CmdDaemonStatus THEN IsRunningLocks \o ReadLocks
    ELSE IF kind = "cycle"
    THEN UpdateStateLocks \o ReadLocks \o ReadLocks \o ReadLocks \o ReadLocks
    ELSE IF kind = "cycle skipped" THEN UpdateStateLocks \o ReadLocks \o ReadLocks
    ELSE StopLocks

IdleTask == [pc |-> "idle", kind |-> "none", i |-> 0, holds |-> {}]
FreeLock == [w |-> 0, r |-> {}]
DeadlockInit ==
    /\ RunIdle
    /\ dmn = NewDaemon(TRUE)
    /\ StoreIdle
    /\ qry = NoQuery
    /\ lk = [locks |-> [state |-> FreeLock, control |-> FreeLock],
             task |-> [p \in Procs |-> IdleTask], calls |-> 0, ended |-> 0]

\* the lock call goroutine p is at
At(p) == LocksOf(lk.task[p].kind)[lk.task[p].i]
Waiting(p, op) == lk.task[p].pc = "run" /\ At(p).op = op

\* a request is dispatched to its handler, the ticker fires, Stop is called
Begin(p) ==
    /\ lk.task[p].pc = "idle" /\ lk.calls < MaxCalls
    /\ \E k \in Kinds(p) :
          lk' = [lk EXCEPT !.calls = @ + 1,
                           !.task[p] = [IdleTask EXCEPT !.pc = "run", !.kind = k, !.i = 1]]
    /\ UNCHANGED <<storeVars, daemonVarsNoLock>>

\* mutex.Lock() or mutex.RLock() returns
Acquire(p) ==
    /\ Waiting(p, "acq")
    /\ LET a == At(p)
           l == lk.locks[a.lock]
       IN  /\ IF a.mode = "w" THEN CanLock(l) ELSE CanRLock(l)
           /\ lk' = [lk EXCEPT !.locks[a.lock] =
                                  IF a.mode = "w" THEN [l EXCEPT !.w = p]
                                  ELSE [l EXCEPT !.r = @ \cup {p}],
                               !.task[p].holds = @ \cup {a.lock},
                               !.task[p].i = @ + 1]
    /\ UNCHANGED <<storeVars, daemonVarsNoLock>>

\* the deferred Unlock() or RUnlock(); after the last one the task returns
Release(p) ==
    /\ Waiting(p, "rel")
    /\ LET a == At(p)
           l == lk.locks[a.lock]
           last_one == lk.task[p].i = Len(LocksOf(lk.task[p].kind))
       IN  lk' = [lk EXCEPT !.locks[a.lock] =
                              IF a.mode = "w" THEN [l EXCEPT !.w = 0]
                              ELSE [l EXCEPT !.r = @ \ {p}],
                           !.task[p].holds = IF a.mode = "r" /\ l.w = p THEN @
                                             ELSE @ \ {a.lock},
                           !.task[p].i = @ + 1,
                           !.task[p].pc = IF last_one THEN "idle" ELSE "run",
                           !.ended = IF last_one THEN @ + 1 ELSE @]
    /\ UNCHANGED <<storeVars, daemonVarsNoLock>>

DeadlockNext == \E p \in Procs : Begin(p) \/ Acquire(p) \/ Release(p)

(* The Go scheduler runs every goroutine that can run: one that is not      *)
(* blocked in a lock call takes its next step.                              *)
DeadlockSpec ==
    /\ DeadlockInit /\ [][DeadlockNext]_vars
    /\ \A p \in Procs : WF_vars(Acquire(p)) /\ WF_vars(Release(p))

(* ======================= properties of the daemon ====================== *)
Completed(command) ==
    /\ last.conn # 0
    /\ last.dispatched
    /\ last.msg.command = command

(* C1: a set-threshold request whose threshold is an integer outside        *)
(* [60,100], is missing or is not a number is answered with success=false,  *)
(* and the in-memory and the persisted chargeThreshold are what they were   *)
(* before the request.                                                      *)
OutsideRange(p) ==
    \/ p.kind \in {"missing", "string"}
    \/ IsInteger(p) /\ (p.tenths < 600 \/ p.tenths > 1000)

C1_InvalidThresholdRejected ==
    (Completed(CmdSetThreshold) /\ OutsideRange(last.msg.param))
        => /\ ~last.resp.success
           /\ mem.threshold = last.thr0
           /\ disk.threshold = last.dthr0

C1_Witness ==
    /\ Completed(CmdSetThreshold)
    /\ last.msg.param = Num(1010)
    /\ last.resp.type = "response"
    /\ ~last.resp.success
    /\ mem.threshold = 80 /\ disk.threshold = 80

(* C2: after a set-threshold t request with an integer t in [60,100], a     *)
(* status response (no other set-threshold in between) reports threshold t. *)
C2_ThresholdReported ==
    (Completed(CmdStatus) /\ last.resp.success /\ last.set # 0)
        => last.resp.data.threshold = last.set

C2_Witness ==
    /\ Completed(CmdStatus)
    /\ last.resp.success
    /\ last.set = 100
    /\ last.resp.data.threshold = 100

(* C3: a monitoring cycle that makes its decision with management enabled   *)
(* and charging=true issues exactly one hardware write, towards the target, *)
(* when the conservation state it observed differs from the target (on iff  *)
(* batteryLevel >= threshold), and none when it is the target; no cycle     *)
(* issues more than one write.  The cycle's values are those its two        *)
(* predicate evaluations read, when both read the same.                     *)
Decided == cyc.pc = "done" /\ cyc.fin = "adjusted" /\ cyc.view = cyc.view2
Target == cyc.view.level >= cyc.view.threshold

C4_ScenarioAPersisted ==
    (/\ Decided /\ cyc.view.enabled /\ cyc.view.charging
     /\ cyc.view.level = cyc.level /\ Target /\ ~cyc.cons
     /\ hw.cons)
        => /\ cyc.writes = 1 /\ cyc.wval
           /\ disk.cons

(* C5: a cycle that observes charging=false, or finds management disabled,  *)
(* issues no hardware write, whatever batteryLevel, threshold and the       *)
(* hardware conservation state are.                                         *)
C5_NoWriteWhenSkipped ==
    (cyc.pc = "done" /\ cyc.fin \in {"skipped", "adjusted"}
        /\ (~cyc.charging \/ ~cyc.en))
        => cyc.writes = 0

C5_Witness ==
    /\ cyc.pc = "done" /\ cyc.fin = "skipped"
    /\ ~cyc.charging /\ cyc.en
    /\ cyc.level >= mem.threshold /\ ~cyc.cons /\ ~hw.cons
    /\ cyc.writes = 0

(* C6: two enable commands in succession leave the state as one does, and   *)
(* issue at most one hardware write between them.                           *)
C6_EnableIdempotent ==
    run.n >= 2 => (run.writes <= 1 /\ mem = run.first)

(* C7: disable sets management disabled only after the hardware switch has  *)
(* been written off and re-read as off; when the hardware write fails the   *)
(* command returns success=false without touching the management flag and   *)
(* currentMode.                                                             *)
C7_DisableHardwareFirst ==
    /\ \A c \in Conns :
          (InFlight(c) /\ conn[c].msg.command = CmdDisable /\ conn[c].mut)
              => (conn[c].wok /\ conn[c].post)
    /\ Completed(CmdDisable)
          => /\ last.mut => last.wok
             /\ ~last.wok => (~last.resp.success /\ ~last.mut)
             /\ last.resp.success => (last.mut /\ last.post)

C7_Witness ==
    /\ Completed(CmdDisable)
    /\ last.writes = 1 /\ ~last.wok /\ hw.cons
    /\ last.resp.type = "response" /\ ~last.resp.success
    /\ mem.enabled /\ mem.mode = "enabled"

C9_OneRequestPerConnection ==
    \A c \in Conns : conn[c].ndisp <= 1

(* C9, amended: on every connection the messages are handled one at a time, *)
(* each read message gets at most one handler and exactly one response      *)
(* before the next is read, and the daemon closes the connection only after *)
(* a failed response write or a message of type response; otherwise it      *)
(* reads on until the client closes.                                        *)
C9_OneResponsePerMessage ==
    /\ \A c \in Conns :
          /\ conn[c].ndisp <= conn[c].nreq
          /\ conn[c].pc = "new" => conn[c].nreq = 0
          /\ InFlight(c) => conn[c].nresp = conn[c].nreq - 1
          /\ conn[c].pc = "open" => (conn[c].nreq >= 1 /\ conn[c].nresp = conn[c].nreq)
          /\ conn[c].pc = "closed" => conn[c].nresp \in {conn[c].nreq, conn[c].nreq - 1}
    /\ last.conn # 0 =>
          (conn[last.conn].pc = "closed"
              <=> (last.resp.type = "none" \/ IsResponse(last.msg)))

C9_Witness ==
    \E c \in Conns :
        /\ conn[c].pc = "open"
        /\ conn[c].nreq = 2 /\ conn[c].ndisp = 2 /\ conn[c].nresp = 2

(* C10: a malformed message (type not request, no request body, empty       *)
(* correlation id) or one with an unknown command is answered with          *)
(* success=false, is not dispatched to a handler and changes neither the    *)
(* state nor the hardware switch.                                           *)
IsMalformed(m) ==
    \/ m.type # "request"
    \/ ~m.hasRequest
    \/ m.id = ""
    \/ ~IsValidCommand(m.command)

C10_MalformedRejected ==
    (last.conn # 0 /\ IsMalformed(last.msg))
        => /\ ~last.dispatched
           /\ ~last.resp.success
           /\ ~last.mut /\ last.writes = 0

(* C11: a successful status response carries the batteryLevel,              *)
(* conservationMode and charging values that the handler of that request    *)
(* read from the hardware; a status request whose hardware read fails is    *)
(* answered with success=false, never with stored values.                   *)
C11_StatusIsFresh ==
    /\ (Completed(CmdStatus) /\ last.resp.success)
          => /\ last.fresh
             /\ Reading(last.resp.data) = last.seen
    /\ (Completed(CmdStatus) /\ last.resp.type = "response" /\ ~last.fresh)
          => ~last.resp.success

C11_Witness ==
    /\ Completed(CmdStatus) /\ last.resp.success /\ last.fresh
    /\ last.seen = [level |-> 70, cons |-> TRUE, charging |-> TRUE]
    /\ Reading(last.resp.data) = last.seen
    /\ hw.level = 85

(* C12: every Response the daemon writes carries the correlation id of the  *)
(* message it answers, whether it reports success or an error.              *)
C12_IdEchoed ==
    (last.conn # 0 /\ last.resp.type = "response")
        => last.resp.id = last.msg.id

C12_Witness ==
    /\ last.conn # 0 /\ last.resp.type = "response"
    /\ ~last.resp.success
    /\ last.msg.id = "req-1" /\ last.resp.id = "req-1"

(* C13: write-through.  Every step that changes the in-memory state or the  *)
(* state file, and whose save reports no error (no injected I/O failure,    *)
(* the new state valid), ends with the file equal to the in-memory state    *)
(* field for field: mutation and save are one step under the write lock.    *)
C13_WriteThrough ==
    [][ ((mem' # mem \/ disk' # disk)
            /\ faults' = faults /\ validateStateFields(mem') = "nil")
        => disk' = mem' ]_vars

C13_Witness ==
    /\ Completed(CmdEnable) /\ last.mut /\ last.resp.success
    /\ mem.lastAction = "enable" /\ mem.threshold = 100
    /\ disk = mem

(* C14: a command during which the save of the state fails is answered      *)
(* with success=false, whichever command it is (status included).           *)
C14_SaveFailureReported ==
    (last.conn # 0 /\ last.serr /\ last.resp.type = "response")
        => ~last.resp.success

(* C28: when a monitoring cycle that took a reading ends, the wait before   *)
(* the next cycle is the interval computed from that reading: 15s, 30s or   *)
(* 2 minutes by the distance between battery level and threshold.           *)
C28_WaitIsRecomputed ==
    (cyc.pc = "done" /\ cyc.fin # "read error")
        => cyc.ticker = adjustCheckInterval(cyc.level, mem.threshold)

(* C30: every message the daemon writes to a connection passes             *)
(* Message.Validate: its type is request or response, its id is not empty   *)
(* and it has its body.                                                     *)
C30_OnlyValidWritten ==
    (last.conn # 0 /\ last.resp # NoResponse) => MessageValidate(last.resp) = "nil"

(* C24: the state a started daemon holds in memory always satisfies its     *)
(* invariants: threshold in 60..100, battery level in 0..100, mode one of   *)
(* enabled, disabled, unknown, and pid > 0.                                 *)
C24_StateInvariants ==
    /\ mem.threshold >= 60 /\ mem.threshold <= 100
    /\ mem.level >= 0 /\ mem.level <= 100
    /\ mem.mode \in {"enabled", "disabled", "unknown"}
    /\ mem.pid > 0

(* ===================== properties of the state file ==================== *)
\* a complete text that holds a valid state
Intact(f) == f.complete /\ validateStateFields(Unmarshal(f).state) = "nil"
Saving == mgr.pc \in {"created", "written", "synced", "closed", "renamed"}

(* C15: at every step of the atomic save, and after a crash at any of them, *)
(* the state file is what it was before the save or the complete new state: *)
(* absent (when it was absent) or one complete valid state, never a         *)
(* truncated or partial one.                                                *)
C15_CrashAtomic ==
    /\ file = mgr.orig \/ Intact(file)
    /\ (Saving \/ mgr.pc = "crashed")
          => (file = mgr.prev \/ file = Encode(mgr.state))

C15_Witness ==
    /\ mgr.pc = "crashed"
    /\ tmp = Truncated
    /\ mgr.prev = Encode(Defaults(1))
    /\ file = mgr.prev
    /\ mgr.state = Configured

\* equal field for field, the two times as instants
SameState(a, b) ==
    /\ a.enabled = b.enabled /\ a.threshold = b.threshold /\ a.mode = b.mode
    /\ a.lastAction = b.lastAction /\ a.level = b.level /\ a.cons = b.cons
    /\ a.charging = b.charging /\ a.pid = b.pid
    /\ TimeEqual(a.lastActionTime, b.lastActionTime)
    /\ TimeEqual(a.startTime, b.startTime)

(* C16: round trip.  A Load() that follows a Save() that returned nil, with *)
(* the file read without an I/O error, returns nil and yields a state equal *)
(* field for field to the saved one.                                        *)
C16_RoundTrip ==
    (mgr.pc = "idle" /\ mgr.op = "load" /\ mgr.saved.some /\ ~mgr.failed)
        => /\ ~mgr.err
           /\ SameState(mgr.state, mgr.saved.state)

C16_Witness ==
    /\ mgr.pc = "idle" /\ mgr.op = "load" /\ ~mgr.err /\ mgr.fresh
    /\ mgr.saved.some /\ mgr.saved.state = Configured
    /\ SameState(mgr.state, Configured)
    /\ mgr.was = Encode(Configured)

(* C17: Load() with no backing file sets the in-memory state to the         *)
(* defaults (conservationEnabled=false, chargeThreshold=80,                 *)
(* currentMode=unknown) and, unless a system call of the save fails,        *)
(* returns nil with the defaults persisted, so the state file exists.       *)
C17_LoadCreatesDefaults ==
    (mgr.pc = "idle" /\ mgr.op = "load" /\ ~mgr.was.exists)
        => /\ ~mgr.state.enabled /\ mgr.state.threshold = 80
           /\ mgr.state.mode = "unknown"
           /\ ~mgr.failed => (~mgr.err /\ file.exists /\ file = Encode(mgr.state))

C17_Witness ==
    /\ mgr.pc = "idle" /\ mgr.op = "load" /\ ~mgr.was.exists
    /\ ~mgr.err /\ file.exists
    /\ SameState(Unmarshal(file).state, Defaults(2))

(* C27: Restore() after a Backup() of a saved state, whatever was mutated   *)
(* and saved in between, brings the state in memory and the state file back *)
(* to what they were at the Backup(); without a backup file Restore() fails *)
(* with ErrNoBackup and changes nothing.                                    *)
C27_RestoreReturns ==
    /\ (/\ mgr.pc = "idle" /\ mgr.op = "restore" /\ ~mgr.err
         /\ mgr.bk.some /\ SameState(mgr.bk.state, Unmarshal(mgr.bk.file).state))
          => (SameState(mgr.state, mgr.bk.state) /\ file = mgr.bk.file)
    /\ (mgr.pc = "idle" /\ mgr.op = "restore" /\ ~mgr.hadbak)
          => (/\ mgr.err /\ mgr.kind = "ErrNoBackup"
              /\ mgr.state = mgr.pre /\ file = mgr.was)
\* restored after the state was changed and saved over the backed-up one
C27_Witness ==
    /\ mgr.pc = "idle" /\ mgr.op = "restore" /\ ~mgr.err
    /\ mgr.bk.some /\ SameState(mgr.bk.state, Configured)
    /\ SameState(mgr.pre, Defaults(1)) /\ mgr.was = Encode(Defaults(1))
    /\ SameState(mgr.state, Configured) /\ file = Encode(Configured)

(* ================== properties of start and shutdown =================== *)
(* C18: a state file that is corrupt JSON or fails validation is not fatal: *)
(* Start succeeds (when no system call fails) and the daemon runs with the  *)
(* defaults.                                                                *)
C18_CorruptFileNotFatal ==
    (mgr.orig.exists /\ ~Intact(mgr.orig) /\ dmn.pc = "failed")
        => dmn.iofail

(* C19: when Start fails at binding the socket or at writing the PID file,  *)
(* the daemon is not running and the state file is untouched.               *)
C19_NoStateOnFatalStart ==
    (dmn.pc = "failed" /\ dmn.at \in {"socket", "pidfile"})
        => (~dmn.running /\ file = mgr.orig)

(* C20: a connection accepted before the shutdown is never cut off without  *)
(* its response.                                                            *)
C20_AcceptedGetResponse ==
    dmn.accepted = "before" => dmn.hc # "killed"
C22_StartAgainRefused ==
    [][((Started /\ dmn.running /\ dmn.stop = "none" /\ dmn'.pc # "started")
         \/ dmn'.refused # dmn.refused)
       => (/\ dmn' = [dmn EXCEPT !.refused = @ + 1]
           /\ dmn'.running
           /\ UNCHANGED <<storeVars, runVars, lk, qry>>)]_vars
C22_Witness ==
    dmn.refused = 1 /\ dmn.running /\ dmn.listener = "open" /\ dmn.srv = "run"

(* ==================== properties of the Manager's lock ================== *)
\* goroutine p has returned from the operation named n
Returned(p, n) == lk.proc[p].pc = "idle" /\ lk.proc[p].op.name = n

(* C23: with handlers and the monitoring loop calling concurrently, every   *)
(* mutation takes effect as a whole, one after the other, and every         *)
(* snapshot GetState returns is a state the Manager held between two whole  *)
(* mutations, never a mix of fields from before and after one.              *)
C23_SnapshotsWhole ==
    /\ \A p \in Procs :
          /\ Returned(p, "get") => lk.proc[p].snap \in lk.committed
          /\ lk.proc[p].pc = "unlock"
               => mgr.state = Whole(lk.proc[p].op, lk.proc[p].pre, lk.proc[p].t)
          /\ lk.proc[p].pc \in {"mutate", "save", "unlock"}
               => \A q \in Procs \ {p} :
                     lk.proc[q].pc \notin {"mutate", "save", "unlock", "copy", "runlock"}
    /\ lk.w = 0 => mgr.state \in lk.committed
\* a snapshot taken after another goroutine's enable, with a third writer waiting
C23_Witness ==
    /\ Returned(1, "get") /\ lk.proc[1].snap.mode = "enabled"
    /\ lk.proc[1].snap \in lk.committed
    /\ Returned(2, "enable")
    /\ lk.proc[3].pc = "mutate" /\ lk.proc[3].op.name = "disable" /\ lk.proc[3].k = 2

(* ================= properties of the Manager's queries ================== *)
(* C25: ShouldEnableConservation is true iff management is enabled, the     *)
(* battery is charging and the level is at or above the threshold;          *)
(* ShouldDisableConservation iff enabled, charging and the level is below   *)
(* it; both read nothing but the state they are called on.                  *)
C25_ShouldPredicates ==
    /\ qry.fn = "ShouldEnableConservation"
          => /\ qry.bool <=> (qry.on.enabled /\ qry.on.charging
                                /\ ~(qry.on.level < qry.on.threshold))
             /\ qry.on = mgr.state
    /\ qry.fn = "ShouldDisableConservation"
          => /\ qry.bool <=> (qry.on.enabled /\ qry.on.charging
                                /\ qry.on.level < qry.on.threshold)
             /\ qry.on = mgr.state
\* enabled, charging, level equal to the threshold: enable is due
C25_Witness ==
    /\ qry.fn = "ShouldEnableConservation" /\ qry.bool
    /\ mgr.state.level = 80 /\ mgr.state.threshold = 80

\* the first invariant s violates, in the order the claim gives
FirstViolated(s) ==
    CASE ~(s.threshold >= 60 /\ s.threshold <= 100) -> "ErrInvalidThreshold"
      [] ~(s.level >= 0 /\ s.level <= 100) -> "ErrInvalidBatteryLevel"
      [] s.mode \notin {"enabled", "disabled", "unknown"} -> "ErrInvalidMode"
      [] ~(s.pid > 0) -> "ErrInvalidPID"
      [] OTHER -> "nil"

(* C26: Validate() returns nil iff threshold, battery level, mode and pid   *)
(* all satisfy their invariants, otherwise the error of the first violated  *)
(* one in the order threshold, battery level, mode, pid; the state is left  *)
(* as it was.                                                               *)
C26_ValidateFirstError ==
    qry.fn = "Validate" => (qry.err = FirstViolated(qry.on) /\ qry.on = mgr.state)
\* an invalid level and an invalid mode together: the level is reported
C26_Witness ==
    /\ qry.fn = "Validate" /\ qry.err = "ErrInvalidBatteryLevel"
    /\ mgr.state.level = 101 /\ mgr.state.mode = "invalid" /\ mgr.state.pid = 0

(* ================== properties of the check interval =================== *)
(* C29: the check interval is within 10s..10m in every state, whether it is *)
(* the 30s of NewDaemon, was set by SetCheckInterval or                     *)
(* SetMonitoringInterval (clamped to the limits, kept when within them), or *)
(* by the monitoring loop.                                                  *)
C29_IntervalInRange ==
    /\ checkInterval >= 10 /\ checkInterval <= 600
    /\ qry.fn = "none" => checkInterval = 30
    /\ qry.fn \in {"SetCheckInterval", "SetMonitoringInterval"}
          => checkInterval = (IF qry.arg < 10 THEN 10
                              ELSE IF qry.arg > 600 THEN 600 ELSE qry.arg)
\* a setter asked for 9 seconds after the loop had chosen 2 minutes
C29_Witness ==
    qry.fn = "SetMonitoringInterval" /\ qry.arg = 9 /\ qry.prev = 120 /\ checkInterval = 10

(* ================= further properties of the running daemon ============= *)
\* x: a handler, a monitoring cycle, or the record of a completed one
WriteChecked(x) ==
    /\ x.werr = "nil" => (x.rr = "same" /\ x.writes = 1)
    /\ x.rr = "other" => x.werr = "not updated"
    /\ x.writes <= 1

(* C31: setConservationMode returns nil only if the re-read it makes after  *)
(* the write shows the requested value; when the re-read shows another      *)
(* value it returns the "not updated" error; and neither a handler nor a    *)
(* monitoring cycle writes the switch a second time after an error.         *)
C31_WriteVerified ==
    /\ WriteChecked(mon) /\ WriteChecked(cyc) /\ WriteChecked(last)
    /\ \A c \in Conns :
          /\ WriteChecked(conn[c])
          /\ conn[c].werr \notin {"none", "nil"} => conn[c].pc \notin {"write", "verify"}
    /\ mon.werr \notin {"none", "nil"} => mon.pc \notin {"write", "verify"}
    /\ (last.conn # 0 /\ last.writes = 1 /\ last.werr # "nil" /\ last.resp.type = "response")
          => ~last.resp.success
\* an enable whose write the hardware accepted without applying it
C31_Witness ==
    /\ Completed(CmdEnable) /\ last.writes = 1
    /\ last.rr = "other" /\ last.werr = "not updated" /\ ~hw.cons
    /\ last.resp.type = "response" /\ ~last.resp.success

(* C32: a monitoring cycle whose hardware read fails ends there: the state  *)
(* in memory and on disk and the hardware switch are what they were.  After *)
(* a read error or a write error alike the goroutine is back in its select  *)
(* with its ticker, and the next tick starts a cycle.                       *)
C32_ReadErrorAborts ==
    [][ /\ (mon.pc = "idle" /\ faults' # faults /\ (mon' # mon \/ cyc'.pc = "done"))
            => /\ cyc'.pc = "done" /\ cyc'.fin = "read error" /\ cyc'.writes = 0
               /\ UNCHANGED <<hw, mem, disk>>
        /\ cyc'.pc = "done" => (mon' = IdleMon /\ mon'.ticker > 0)
        /\ (cyc'.pc = "done" /\ cyc'.werr # "none" /\ cyc'.werr # "nil")
            => cyc'.fin = "adjusted"
      ]_vars
\* the read failed with the charger in, the level below the threshold, the switch on
C32_Witness ==
    /\ cyc.pc = "done" /\ cyc.fin = "read error" /\ mon = IdleMon
    /\ hw.level = 70 /\ hw.charging /\ hw.cons
    /\ mem.enabled /\ mem.level = 85 /\ ~mem.cons /\ disk = mem

(* C33: the decision of a monitoring cycle is made on the hardware snapshot *)
(* that cycle read and on one view of the configuration: both predicates    *)
(* and the gate see the same enabled flag, threshold, level and charging.   *)
C33_DecisionOnOneView ==
    (cyc.pc = "done" /\ cyc.fin = "adjusted")
        => /\ cyc.view = cyc.view2
           /\ cyc.view.level = cyc.level /\ cyc.view.charging = cyc.charging
           /\ cyc.view.enabled = cyc.en

\* no monitoring cycle and no handler is under way
Quiet == mon.pc = "idle" /\ \A c \in Conns : ~InFlight(c)

\* the daemon has received one message so far, on connection c
OnlyCommand(c) == conn[c].nreq = 1 /\ \A e \in Conns \ {c} : conn[e].nreq = 0

(* C34: once a disable command has returned success and the monitoring      *)
(* cycle that was in flight has finished, the hardware switch is off.       *)
(* Looked at where a cycle ends, in runs without any failure in which the   *)
(* daemon received one command: the state then says "disabled" only if that *)
(* command was a disable, which has returned success, and no enable command *)
(* was handled at all.                                                      *)
C34_DisabledStaysOff ==
    (/\ faults = 0 /\ \E c \in Conns : OnlyCommand(c)
     /\ cyc.pc = "done" /\ mem.mode = "disabled" /\ Quiet)
        => ~hw.cons

(* C35: an enable command whose hardware write fails (the write, the        *)
(* re-read or the comparison) is answered with success=false and leaves     *)
(* conservationEnabled and currentMode as they were before the command.     *)
(* Looked at in runs in which it is the only command received.              *)
C35_FailedEnableKeepsState ==
    (/\ Completed(CmdEnable) /\ OnlyCommand(last.conn)
     /\ last.writes = 1 /\ last.werr \notin {"none", "nil"}
     /\ last.resp.type = "response")
        => /\ ~last.resp.success
           /\ mem.enabled = last.en0 /\ mem.mode = last.mode0

(* C36: UpdateState mutates the state in memory before it validates.  When  *)
(* the save is reached the whole mutation is in memory, valid or not; a     *)
(* save of an invalid state returns the validation error and leaves the     *)
(* state file as it was, whichever field the call mutated, so an invalid    *)
(* level makes every later mutation fail until one makes the state valid    *)
(* again; a save that returns nil has written the state.                    *)
C36_InvalidStaysInMemory ==
    [][ \A p \in Procs :
          (lk.proc[p].pc = "save" /\ lk'.proc[p].pc = "unlock")
             => /\ mgr.state = Whole(lk.proc[p].op, lk.proc[p].pre, lk.proc[p].t)
                /\ mgr' = mgr
                /\ validateStateFields(mgr.state) # "nil"
                      => (lk'.proc[p].res = "invalid state" /\ file' = file)
                /\ validateStateFields(mgr.state) = "nil"
                      => lk'.proc[p].res \in {"nil", "io"}
                /\ lk'.proc[p].res = "nil" => file' = Encode(mgr.state)
      ]_vars
\* a level of 101 makes an enable fail; a level of 85 then persists both
C36_Witness ==
    /\ Returned(1, "battery") /\ lk.proc[1].op.arg = 101 /\ lk.proc[1].res = "invalid state"
    /\ Returned(2, "enable") /\ lk.proc[2].res = "invalid state"
    /\ lk.proc[2].pre.level = 101 /\ ~lk.proc[2].pre.enabled
    /\ Returned(3, "status") /\ lk.proc[3].op.arg = 85 /\ lk.proc[3].res = "nil"
    /\ lk.proc[3].pre.enabled /\ mgr.state.enabled /\ mgr.state.level = 85
    /\ file = Encode(mgr.state)

(* C37: whenever the atomic save returns an error, the state file holds     *)
(* what it held before the call and no temp file is left.  (No process is   *)
(* killed here, so a temp file could only come from the save itself.)       *)
C37_FailedSaveKeepsFile ==
    (mgr.pc = "idle" /\ mgr.op = "save" /\ mgr.err)
        => (file = mgr.was /\ tmp = Absent)

(* C38: whenever IsRunning() is true the monitoring loop and the connection *)
(* server of the daemon are active, also after Start, Stop, Start on one    *)
(* Daemon value; and Run() does not return while the daemon is running.     *)
C38_RunningMeansActive ==
    /\ (dmn.pc = "started" /\ dmn.alive /\ dmn.running)
          => (dmn.monl \in {"run", "checking"} /\ dmn.srv = "run")
    /\ (dmn.pc = "started" /\ dmn.viaRun /\ ~dmn.alive /\ dmn.stop # "panic")
          => ~dmn.running

C40_DeadlockFree ==
    /\ [](\A p \in Procs :
            Waiting(p, "acq")
               => /\ At(p).lock \notin lk.task[p].holds
                  /\ lk.task[p].kind \in HandlerKinds \cup CycleKinds
                        => lk.task[p].holds = {})
    /\ \A p \in Procs : (lk.task[p].pc = "run") ~> (lk.task[p].pc = "idle")
\* a status handler waits for the state lock a monitoring cycle holds, during a Stop
C40_Witness ==
    /\ lk.task[1].kind = "cycle" /\ lk.locks["state"].w = 1
    /\ lk.task[2].kind = CmdStatus /\ Waiting(2, "acq") /\ lk.task[2].i = 1
    /\ lk.task[3].kind = "stop" /\ lk.locks["control"].w = 3

====
